---- MODULE Spec2Model ----
(***************************************************************************)
(* Model of mainthread's thread lifecycle and event engine:                *)
(*   src/src/mainthread/db.py                   the store (threads, events)*)
(*   src/src/mainthread/agents/task_registry.py the task registry          *)
(*   src/src/mainthread/server.py               event bus, turns, workers  *)
(*                                                                         *)
(* The server runs on one asyncio event loop.  A coroutine runs without    *)
(* interruption between two points where it really suspends, so one action *)
(* of the model is the code executed between two suspensions.  The real    *)
(* suspension points of a turn are: the wait for the agent semaphore (only *)
(* when no permit is free), every fetch from the agent driver's stream,    *)
(* the retry delay, and the notification worker's queue.get().  Database   *)
(* calls are synchronous and queue.put() on the unbounded asyncio.Queue    *)
(* never suspends, so broadcast_to_thread is executed in one piece.        *)
(*                                                                         *)
(* Task.cancel() only requests cancellation: CancelledError is raised in   *)
(* the cancelled coroutine when it is next resumed.  The model keeps the   *)
(* request in the task's "cancel" field; the step that delivers it is      *)
(* task_cancelled.                                                         *)
(***************************************************************************)
EXTENDS Integers, Sequences, FiniteSets, TLC

\* ------------------------------------------------------------------ bounds
MaxTasks == 3        \* turn tasks (send_message, run_thread_for_agent) ever created
MaxWorkers == 2      \* notification worker tasks ever created
MaxSubs == 2         \* SSE connections ever opened
MaxEvents == 3       \* events published by the bus harness (SpecBus)
MaxSignals == 2      \* SignalStatus calls the agents make in a run
MaxText == 1         \* text messages carrying a status marker in a run
MaxFaults == 1       \* driver failures (exception, caught SDK error, timeout) in a run
MaxArchives == 1     \* archive requests in a run
MaxMsgs == 4         \* driver messages handled by the processor in a run
MaxWaiters == 3      \* wait_for_answer calls in a run
MaxRows == 5         \* rows of the spawn tree's threads table
MaxDepthSetting == 3 \* largest maxThreadDepth a request asks for (the API allows up to 5)
MaxCalls == 7        \* SendToThread calls in a run
MaxTicks == 4        \* advances of the clock in a run
MaxClears == 1       \* clear_thread_messages calls in a run
MaxWatchdogs == 5    \* rounds of the watchdog in a run
MaxConfigs == 2      \* changes of a thread's configuration in a run
MaxChunks == 2       \* text messages of the driver in a run of SpecStatus
MaxPages == 2        \* page requests in a run
MaxLimit == 3        \* largest limit below the clamp that a request asks for

\* --------------------------------------------------------- program constants
\* MAINTHREAD_MAX_AGENTS and MAINTHREAD_MAX_RETRIES are read from the
\* environment (defaults 10 and 2); the model runs the configuration 2 / 1.
MAX_CONCURRENT_AGENTS == 2
MAX_AGENT_RETRIES == 1
\* ServiceRegistry.message_rate_limit and message_window (seconds)
message_rate_limit == 5
message_window == 60
\* the largest page get_messages_paginated returns
MAX_PAGE_LIMIT == 100
\* AGENT_TIMEOUT_SECONDS (MAINTHREAD_AGENT_TIMEOUT of the environment; the
\* model runs 1) and the watchdog's period and threshold
AGENT_TIMEOUT_SECONDS == 1
WATCHDOG_INTERVAL_SECONDS == 15
WATCHDOG_STUCK_THRESHOLD_SECONDS == AGENT_TIMEOUT_SECONDS + 60

\* ------------------------------------------------------------------ threads
\* Three rows of the threads table: a root thread "p", its sub-thread "c" and
\* the nested sub-thread "g" of "c".
Threads == {"p", "c", "g"}
NoThread == "none"
parentId == [t \in Threads |-> IF t = "c" THEN "p" ELSE IF t = "g" THEN "c" ELSE NoThread]
\* the root and its sub-thread: the threads the requests of the harnesses
\* below address, except where a harness names another one
Pair == {"p", "c"}

\* tasks 1..MaxTasks run turns, the tasks after them run notification workers
TurnIds == 1..MaxTasks
WorkerIds == (MaxTasks + 1)..(MaxTasks + MaxWorkers)
TaskIds == TurnIds \cup WorkerIds
SubIds == 1..MaxSubs
None == 0

Range(f) == {f[x] : x \in DOMAIN f}

VARIABLES
  threads,              \* threads table: status, session_id, archived_at
  messages,             \* messages table, per thread: the kind of each row
  events,               \* events table, per thread: rows in insertion order
  lastSeq,              \* sqlite_sequence of events.seq_id (AUTOINCREMENT)
  thread_subscribers,   \* server.thread_subscribers: thread -> list of queues
  subs,                 \* the SSE connections: queue, generator position, what was sent
  active_tasks,         \* task_registry._active_tasks: thread -> task
  tasks,                \* the asyncio tasks: position, attempt, cancel request, ...
  notification_queues,  \* server._notification_queues: thread -> queue (named by its worker)
  notification_workers, \* server._notification_workers: thread -> worker task
  agent_semaphore,      \* free permits of server._agent_semaphore
  processor,            \* a turn's MessageStreamProcessor and its assistant message rows
  registry,             \* ServiceRegistry._pending_questions and the wait_for_answer calls
  thread_rows,          \* threads table, spawn columns: parent_id, allow_nested_subthreads, max_thread_depth
  hist                  \* history: what was appended, enqueued, started (not program state)

vars == <<threads, messages, events, lastSeq, thread_subscribers, subs, active_tasks,
          tasks, notification_queues, notification_workers, agent_semaphore, processor,
          registry, thread_rows, hist>>

\* The program state as one record, so that a handler's statements can be
\* applied one after the other; Commit makes the result the next state.
St == [threads |-> threads, messages |-> messages, events |-> events,
       lastSeq |-> lastSeq, thread_subscribers |-> thread_subscribers,
       subs |-> subs, active_tasks |-> active_tasks, tasks |-> tasks,
       notification_queues |-> notification_queues,
       notification_workers |-> notification_workers,
       agent_semaphore |-> agent_semaphore, processor |-> processor,
       registry |-> registry, thread_rows |-> thread_rows, hist |-> hist,
       overflow |-> FALSE]

Commit(s) ==
  /\ ~s.overflow
  /\ threads' = s.threads
  /\ messages' = s.messages
  /\ events' = s.events
  /\ lastSeq' = s.lastSeq
  /\ thread_subscribers' = s.thread_subscribers
  /\ subs' = s.subs
  /\ active_tasks' = s.active_tasks
  /\ tasks' = s.tasks
  /\ notification_queues' = s.notification_queues
  /\ notification_workers' = s.notification_workers
  /\ agent_semaphore' = s.agent_semaphore
  /\ processor' = s.processor
  /\ registry' = s.registry
  /\ thread_rows' = s.thread_rows
  /\ hist' = s.hist

\* -------------------------------------------------------------------- store

\* datetime.now(): the wall clock, one tick later at every reading
now(s) == s.hist.now + 1

update_thread_status(s, t, st) ==
  [s EXCEPT !.threads[t].status = st, !.threads[t].updated_at = now(s), !.hist.now = now(s)]

update_thread_session(s, t, sid) ==
  [s EXCEPT !.threads[t].session_id = sid, !.threads[t].updated_at = now(s), !.hist.now = now(s)]

add_message(s, t, kind) == [s EXCEPT !.messages[t] = Append(@, kind)]

Min(a, b) == IF a < b THEN a ELSE b
Max(a, b) == IF a > b THEN a ELSE b

\* history: the answer to the last page request.  A message is named by its
\* position in the thread's chronological order (1 is the oldest).
NoPage == [thread |-> NoThread, limit |-> 0, offset |-> 0, total |-> 0,
           messages |-> <<>>, hasMore |-> FALSE]

\* get_messages_paginated: SELECT ... ORDER BY timestamp ASC LIMIT actual_limit
\* OFFSET start_from
get_messages_paginated(s, thread_id, limit_, offset_) ==
  LET limit == Max(1, Min(limit_, MAX_PAGE_LIMIT))
      offset == Max(0, offset_)
      total == Len(s.messages[thread_id])
      start_from == Max(0, total - limit - offset)
      actual_limit == Min(limit, total - start_from)
  IN IF actual_limit <= 0
     THEN [thread |-> thread_id, limit |-> limit, offset |-> offset, total |-> total,
           messages |-> <<>>, hasMore |-> FALSE]
     ELSE [thread |-> thread_id, limit |-> limit, offset |-> offset, total |-> total,
           messages |-> [k \in 1..actual_limit |-> start_from + k],
           hasMore |-> start_from > 0]

\* DELETE FROM messages and session_id = NULL.  History: the clear is counted,
\* and the token the next turn on t reads will be recorded.
Unread == -1

clear_thread_messages(s, t) ==
  [s EXCEPT !.messages[t] = <<>>, !.threads[t].session_id = None,
            !.threads[t].updated_at = now(s), !.hist.now = now(s),
            !.hist.clears = @ + 1, !.hist.cleared[t] = -1, !.hist.first_read[t] = Unread]

\* A mutant of add_event: seq-ids numbered per thread instead of by the
\* table's AUTOINCREMENT counter.
add_event_per_thread(s, t, type, data) ==
  LET id == Len(s.events[t]) + 1
  IN [s EXCEPT !.lastSeq = id,
               !.events[t] = Append(@, [seq_id |-> id, type |-> type, data |-> data]),
               !.hist.appended = @ + 1]

\* INSERT INTO events: seq_id is INTEGER PRIMARY KEY AUTOINCREMENT, one counter
\* for the whole table, never reused after a DELETE.  s.lastSeq is the
\* returned cursor.lastrowid.
add_event(s, t, type, data) ==
  LET id == s.lastSeq + 1
  IN [s EXCEPT !.lastSeq = id,
               !.events[t] = Append(@, [seq_id |-> id, type |-> type, data |-> data]),
               !.hist.appended = @ + 1]

\* SELECT ... WHERE thread_id = ? AND seq_id > ? ORDER BY seq_id ASC
get_events_since(s, t, last_seq_id) ==
  SelectSeq(s.events[t], LAMBDA e : e.seq_id > last_seq_id)

clear_thread_events(s, t) == [s EXCEPT !.events[t] = <<>>]

\* update_thread_config with auto_react given (the other settings are not
\* modelled)
update_thread_config(s, t, auto_react) ==
  [s EXCEPT !.threads[t].auto_react = auto_react, !.threads[t].updated_at = now(s),
            !.hist.now = now(s)]

archive_thread(s, t) ==
  [s EXCEPT !.threads[t].archived_at = TRUE, !.threads[t].updated_at = now(s), !.hist.now = now(s)]

unarchive_thread(s, t) ==
  [s EXCEPT !.threads[t].archived_at = FALSE, !.threads[t].updated_at = now(s), !.hist.now = now(s)]

\* ---------------------------------------------------------------- event bus

\* queue.put(ev) on every queue of the list qs
PutAll(s, qs, ev) ==
  [s EXCEPT !.subs = [x \in SubIds |->
      IF x \in Range(qs) THEN [@[x] EXCEPT !.queue = Append(@, ev)] ELSE @[x]]]

broadcast_to_thread(s, t, type, data) ==
  LET s1 == add_event(s, t, type, data)
      ev == [seq_id |-> s1.lastSeq, type |-> type, data |-> data]
  IN PutAll(s1, s1.thread_subscribers[t], ev)

\* "for queues in thread_subscribers.values(): for queue in queues: put(...)":
\* an event handed to every subscriber of every thread without add_event; the
\* generator sends it with id event.get("_seq_id", 0).
put_to_all_subscribers(s, type, data) ==
  LET all == UNION {Range(s.thread_subscribers[t]) : t \in Threads}
  IN [s EXCEPT !.subs = [x \in SubIds |->
        IF x \in all
        THEN [@[x] EXCEPT !.queue = Append(@, [seq_id |-> 0, type |-> type, data |-> data])]
        ELSE @[x]]]

close_thread_subscribers(s, t) ==
  LET qs == s.thread_subscribers[t]
      s1 == [s EXCEPT !.thread_subscribers[t] = <<>>]
  IN PutAll(s1, qs, [seq_id |-> 0, type |-> "shutdown", data |-> ""])

\* the generator's finally block: remove the queue from the thread's list
RemoveQueue(s, x) ==
  [s EXCEPT !.thread_subscribers[s.subs[x].thread] = SelectSeq(@, LAMBDA q : q # x)]

\* GET /api/threads/{id}/stream?last_event_id=n: the handler registers the
\* queue and returns; the generator runs later.  last = -1 stands for no
\* last_event_id.
stream_thread_events(x, t, last) ==
  /\ subs[x].pc = "none"
  /\ \A y \in SubIds : y < x => subs[y].pc # "none"
  /\ Commit([St EXCEPT !.thread_subscribers[t] = Append(@, x),
                       !.subs[x] = [pc |-> "registered", thread |-> t,
                                    last_event_id |-> last, queue |-> <<>>,
                                    delivered |-> <<>>]])

Sent(e) == [event |-> e.type, id |-> e.seq_id]

\* event_generator up to its first queue.get(): "connected", then the replay
\* of get_events_since when last_event_id was given.
event_generator_start(x) ==
  /\ subs[x].pc = "registered"
  /\ LET missed == IF subs[x].last_event_id # -1
                   THEN get_events_since(St, subs[x].thread, subs[x].last_event_id)
                   ELSE <<>>
     IN Commit([St EXCEPT !.subs[x].pc = "live",
                          !.subs[x].delivered = [k \in 1..Len(missed) |-> Sent(missed[k])]])

\* one turn of the generator's loop: queue.get(), then break on shutdown
\* (running the finally block) or yield the event with its id
event_generator_next(x) ==
  /\ subs[x].pc = "live"
  /\ subs[x].queue # <<>>
  /\ LET e == Head(subs[x].queue)
         s1 == [St EXCEPT !.subs[x].queue = Tail(@)]
     IN IF e.type = "shutdown"
        THEN Commit(RemoveQueue([s1 EXCEPT !.subs[x].pc = "closed"], x))
        ELSE Commit([s1 EXCEPT !.subs[x].delivered = Append(@, Sent(e))])

\* the client goes away: the generator is closed and its finally block runs
client_disconnect(x) ==
  /\ subs[x].pc = "live"
  /\ Commit(RemoveQueue([St EXCEPT !.subs[x].pc = "closed"], x))

Statuses == {"active", "pending", "running", "needs_attention", "done", "new_message"}

\* PATCH /api/threads/{id}/status
update_status(t, st) ==
  Commit(broadcast_to_thread(update_thread_status(St, t, st), t, "status_change", st))

\* PATCH /api/threads/{id}/config with autoReact
update_config(t, autoReact) ==
  /\ t \in Threads
  /\ Commit([broadcast_to_thread(update_thread_config(St, t, autoReact), t,
                                 "config_change", IF autoReact THEN "on" ELSE "off")
               EXCEPT !.hist.configs = @ + 1])

\* GET /api/threads/{id}/messages?limit=&offset=
get_thread_messages(t, limit, offset) ==
  /\ t \in Threads
  /\ Commit([St EXCEPT !.hist.page = get_messages_paginated(St, t, limit, offset),
                       !.hist.pages = @ + 1])

\* ------------------------------------------------------------------- tasks
\* An asyncio task.  kind: which coroutine it runs; pc: where it is suspended;
\* calls, text: what run_agent has collected in the current driver invocation
\* (the status arguments of its SignalStatus tool calls, the markers in its
\* text); queue, cur: a notification worker's queue object and the
\* notification it is processing.  stopped and sub_status count the `stopped`
\* events the task published and the `subthread_status` events published to
\* the parent for its run (history).
NoTask == [kind |-> "none", thread |-> NoThread, pc |-> "none", attempt |-> 0,
           cancel |-> FALSE, permit |-> FALSE, calls |-> <<>>, text |-> {},
           queue |-> <<>>, cur |-> 0, stopped |-> 0, sub_status |-> 0]

TurnKinds == {"send_message", "run_thread_for_agent"}
InTurn == {"acquire", "stream", "retry_sleep"}

Pool(kind) == IF kind = "notification_worker" THEN WorkerIds ELSE TurnIds
FreeIds(s, kind) == {i \in Pool(kind) : s.tasks[i].kind = "none"}
HasFree(s, kind) == FreeIds(s, kind) # {}
NewId(s, kind) == CHOOSE i \in FreeIds(s, kind) : \A j \in FreeIds(s, kind) : i <= j

\* asyncio.create_task: the next task; no task left is the model's bound
create_task(s, kind, t) ==
  IF HasFree(s, kind)
  THEN [s EXCEPT !.tasks[NewId(s, kind)] = [NoTask EXCEPT !.kind = kind, !.thread = t, !.pc = "new"]]
  ELSE [s EXCEPT !.overflow = TRUE]

done(s, i) == s.tasks[i].pc = "done"

\* Task.cancel(): a request, delivered when the task is next resumed
cancel(s, i) == [s EXCEPT !.tasks[i].cancel = TRUE]

\* --------------------------------------------------------- task registry

register_task(s, t, i) ==
  LET existing == s.active_tasks[t]
      s1 == IF existing # None /\ ~done(s, existing) THEN cancel(s, existing) ELSE s
  IN [s1 EXCEPT !.active_tasks[t] = i]

unregister_task(s, t) == [s EXCEPT !.active_tasks[t] = None]

\* the registry part of stop_task; its return value is Stoppable
stop_task(s, t) ==
  LET active == s.active_tasks[t]
      s1 == [s EXCEPT !.active_tasks[t] = None]
  IN IF active # None /\ ~done(s, active) THEN cancel(s1, active) ELSE s1

Stoppable(s, t) == s.active_tasks[t] # None /\ ~done(s, s.active_tasks[t])

\* ------------------------------------------------------------- semaphore

\* A mutant of sem_acquire: the turn goes on without taking a permit.
sem_acquire_skipped(s, i) == s

sem_acquire(s, i) == [s EXCEPT !.agent_semaphore = @ - 1, !.tasks[i].permit = TRUE]

\* A mutant of sem_release: the turn leaves without giving the permit back.
sem_release_leaked(s, i) == [s EXCEPT !.tasks[i].permit = FALSE]

\* leaving "async with _agent_semaphore", on every path
sem_release(s, i) ==
  IF s.tasks[i].permit
  THEN [s EXCEPT !.agent_semaphore = @ + 1, !.tasks[i].permit = FALSE]
  ELSE s

\* ------------------------------------------------------ run_agent_with_retry

\* One iteration of the attempt loop up to the first fetch from the driver:
\* the thread is fetched again and its sessionId is what run_agent resumes;
\* on a retry the system note; then the processor's placeholder assistant
\* message, status running and status_change{running}.
begin_attempt(s, i) ==
  LET t == s.tasks[i].thread
      s1 == IF s.tasks[i].attempt > 0
            THEN broadcast_to_thread(add_message(s, t, "system"), t, "message", "retry")
            ELSE s
      s2 == add_message(s1, t, "assistant")
      s3 == broadcast_to_thread(update_thread_status(s2, t, "running"), t,
                                "status_change", "running")
  IN [s3 EXCEPT !.tasks[i].pc = "stream", !.tasks[i].calls = <<>>, !.tasks[i].text = {},
                !.hist.recovered[t] = IF s.tasks[i].attempt = 0 THEN FALSE ELSE @,
                !.hist.first_read[t] = IF s.hist.cleared[t] = i /\ @ = Unread
                                       THEN s.threads[t].session_id ELSE @]

\* "async with _agent_semaphore:" entered, then run_agent_with_retry;
\* run_thread_for_agent publishes queue_acquired first
admit(s, i) ==
  LET s1 == sem_acquire(s, i)
      s2 == IF s.tasks[i].kind = "run_thread_for_agent"
            THEN broadcast_to_thread(s1, s.tasks[i].thread, "queue_acquired", "")
            ELSE s1
  IN begin_attempt(s2, i)

\* asyncio.Semaphore.acquire() returns at once when a permit is free and
\* suspends the task otherwise
try_admit(s, i) ==
  IF s.agent_semaphore > 0 THEN admit(s, i)
  ELSE [s EXCEPT !.tasks[i].pc = "acquire", !.hist.waited = @ \cup {i}]

\* determine_status(content, tool_calls): the first SignalStatus call whose
\* status is done or blocked decides; then the text markers, [BLOCKED] first
RECURSIVE first_signal(_)
first_signal(calls) ==
  IF calls = <<>> THEN "none"
  ELSE IF Head(calls) = "blocked" THEN "needs_attention"
  ELSE IF Head(calls) = "done" THEN "done"
  ELSE first_signal(Tail(calls))

\* A mutant of determine_status: the text markers are looked at first.
determine_status_text_first(text, calls) ==
  IF "[BLOCKED]" \in text THEN "needs_attention"
  ELSE IF "[DONE]" \in text THEN "done"
  ELSE IF first_signal(calls) # "none" THEN first_signal(calls)
  ELSE "active"

determine_status(text, calls) ==
  IF first_signal(calls) # "none" THEN first_signal(calls)
  ELSE IF "[BLOCKED]" \in text THEN "needs_attention"
  ELSE IF "[DONE]" \in text THEN "done"
  ELSE "active"

\* ---------------------------------------------------- notification scheduler

\* A mutant of queue_get: the newest notification instead of the oldest.
queue_get_newest(q) == [item |-> q[Len(q)], rest |-> SubSeq(q, 1, Len(q) - 1)]

\* asyncio.Queue.get() on a non-empty queue
queue_get(q) == [item |-> Head(q), rest |-> Tail(q)]

\* Called through asyncio.create_task by the two notify functions; it has no
\* suspension point and tasks start in creation order, so the model runs it
\* where it is created.  The notification content is named by its number in
\* enqueue order.
run_parent_thread_notification(s, p) ==
  LET s1 == IF s.notification_queues[p] = None
            THEN LET c == create_task(s, "notification_worker", p)
                     w == NewId(s, "notification_worker")
                 IN IF c.overflow THEN c
                    ELSE [c EXCEPT !.tasks[w].pc = "queue_get",
                                   !.notification_queues[p] = w,
                                   !.notification_workers[p] = w]
            ELSE s
      n == s.hist.enqueued + 1
  IN IF s1.overflow THEN s1
     ELSE [s1 EXCEPT !.tasks[s1.notification_queues[p]].queue = Append(@, n),
                     !.hist.enqueued = n]

\* the thread's subthread_status to the parent, counted for the run of task i
subthread_status(s, i, p, t, st) ==
  [broadcast_to_thread(s, p, "subthread_status", st) EXCEPT !.tasks[i].sub_status = @ + 1]

notify_parent_of_subthread_completion(s, i, t, final_status) ==
  LET p == parentId[t]
      effective_status == IF final_status = "active" THEN "done" ELSE final_status
      s1 == IF final_status = "active" THEN update_thread_status(s, t, "done") ELSE s
      s2 == IF final_status = "active" THEN subthread_status(s1, i, p, t, effective_status)
            ELSE s1
      s3 == broadcast_to_thread(add_message(s2, p, "user"), p, "message",
                                IF effective_status = "done" THEN "completed"
                                ELSE "needs attention")
  IN IF p = NoThread THEN s
     ELSE IF s.threads[p].auto_react THEN run_parent_thread_notification(s3, p) ELSE s3

\* _notify_parent_on_subthread_error
notify_parent_on_subthread_error(s, i, t) ==
  LET p == parentId[t]
      s1 == subthread_status(s, i, p, t, "needs_attention")
      s2 == broadcast_to_thread(add_message(s1, p, "user"), p, "message", "error")
  IN IF p = NoThread THEN s
     ELSE IF s2.threads[p].auto_react THEN run_parent_thread_notification(s2, p) ELSE s2

\* broadcast_status_signal_to_parent, called by the SignalStatus tool
broadcast_status_signal_to_parent(s, i, p, t, st) ==
  LET new_status == IF st = "done" THEN "done" ELSE "needs_attention"
  IN subthread_status(update_thread_status(s, t, new_status), i, p, t, new_status)


\* ------------------------------------------------------------ turn endings

Running(s, i) == s.tasks[i].pc \in InTurn /\ ~s.tasks[i].cancel

\* send_message / run_thread_for_agent after run_agent_with_retry returned:
\* status, session, parent notification, `complete`, and the finally block
turn_success(s, i, final_status, final_session_id) ==
  LET t == s.tasks[i].thread
      s1 == update_thread_status(sem_release(s, i), t, final_status)
      s2 == IF final_session_id # None THEN update_thread_session(s1, t, final_session_id)
            ELSE s1
      s3 == notify_parent_of_subthread_completion(s2, i, t, final_status)
      s4 == broadcast_to_thread(s3, t, "complete", final_status)
  IN [unregister_task(s4, t) EXCEPT !.tasks[i].pc = "done"]

\* "except TimeoutError" and "except Exception" of send_message and
\* run_thread_for_agent: needs_attention, `error`, the parent escalation
turn_error(s, i, msg) ==
  LET t == s.tasks[i].thread
      s1 == update_thread_status(sem_release(s, i), t, "needs_attention")
      s2 == broadcast_to_thread(s1, t, "error", msg)
      s3 == notify_parent_on_subthread_error(s2, i, t)
  IN [unregister_task(s3, t) EXCEPT !.tasks[i].pc = "done"]

\* A mutant of turn_cancelled: the cancellation is handled like an error.
turn_cancelled_as_error(s, i) ==
  LET t == s.tasks[i].thread
      s1 == update_thread_status(sem_release(s, i), t, "active")
      s2 == broadcast_to_thread(s1, t, "stopped", "")
      s3 == notify_parent_on_subthread_error(s2, i, t)
  IN [unregister_task(s3, t) EXCEPT !.tasks[i].pc = "done", !.tasks[i].stopped = @ + 1]

\* "except asyncio.CancelledError" of send_message and run_thread_for_agent
turn_cancelled(s, i) ==
  LET t == s.tasks[i].thread
      s1 == update_thread_status(sem_release(s, i), t, "active")
      s2 == broadcast_to_thread(s1, t, "stopped", "")
  IN [unregister_task(s2, t) EXCEPT !.tasks[i].pc = "done", !.tasks[i].stopped = @ + 1]

\* _notification_worker after run_agent_with_retry returned; back to queue.get()
worker_success(s, i, final_status, final_session_id) ==
  LET t == s.tasks[i].thread
      s1 == update_thread_status(sem_release(s, i), t, final_status)
      s2 == IF final_session_id # None THEN update_thread_session(s1, t, final_session_id)
            ELSE s1
      s3 == broadcast_to_thread(s2, t, "complete", final_status)
  IN [s3 EXCEPT !.tasks[i].pc = "queue_get", !.tasks[i].cur = 0]

\* "except TimeoutError" and "except Exception" of _notification_worker
worker_error(s, i, msg) ==
  LET t == s.tasks[i].thread
      s1 == update_thread_status(sem_release(s, i), t, "needs_attention")
      s2 == broadcast_to_thread(s1, t, "error", msg)
  IN [s2 EXCEPT !.tasks[i].pc = "queue_get", !.tasks[i].cur = 0]

\* "except TimeoutError" and "except Exception" of _notification_worker when
\* the handler itself raises (the store fails in update_thread_status, or in
\* add_event after the status was written): nothing in the worker catches
\* it, the while loop is left and the task ends with the exception; the
\* done callback logs it.  _notification_queues keeps the queue.
worker_error_raises(s, i, written) ==
  LET t == s.tasks[i].thread
      s1 == sem_release(s, i)
      s2 == IF written THEN update_thread_status(s1, t, "needs_attention") ELSE s1
  IN [s2 EXCEPT !.tasks[i].pc = "done"]

\* CancelledError in _notification_worker: caught at queue.get() (return);
\* inside a turn no handler catches it, the task ends with it
worker_cancelled(s, i) == [sem_release(s, i) EXCEPT !.tasks[i].pc = "done"]

IsWorker(s, i) == s.tasks[i].kind = "notification_worker"

succeed(s, i, final_status, final_session_id) ==
  IF IsWorker(s, i) THEN worker_success(s, i, final_status, final_session_id)
  ELSE turn_success(s, i, final_status, final_session_id)

fail(s, i, msg) == IF IsWorker(s, i) THEN worker_error(s, i, msg) ELSE turn_error(s, i, msg)

\* ------------------------------------------------------------ entry points

\* POST /api/threads/{id}/messages up to its first suspension
send_message(t) ==
  /\ HasFree(St, "send_message")
  /\ LET i == NewId(St, "send_message")
         s0 == [create_task(St, "send_message", t) EXCEPT
                  !.hist.after_stop[t] = IF @ = -1 THEN i ELSE None,
                  !.hist.cleared[t] = IF @ = -1 THEN i ELSE @]
         s1 == update_thread_status(add_message(s0, t, "user"), t, "pending")
         s2 == register_task(s1, t, i)
     IN Commit(try_admit(s2, i))

\* run_thread_for_agent up to its first suspension
run_thread_for_agent(s, i, t) ==
  LET s1 == update_thread_status(add_message(s, t, "user"), t, "pending")
      s2 == broadcast_to_thread(s1, t, "status_change", "pending")
      s3 == register_task(s2, t, i)
      s4 == broadcast_to_thread(s3, t, "queue_waiting", "")
  IN try_admit(s4, i)

\* The SendToThread tool, called by the agent of a running turn of `source`:
\* the target must be a child of the source and not archived; the turn on the
\* target is a new task (fire-and-forget), run here from its creation.
send_to_thread_for_agent(target, source) ==
  /\ parentId[target] = source
  /\ ~threads[target].archived_at
  /\ \E j \in TaskIds : /\ tasks[j].thread = source
                        /\ tasks[j].pc = "stream"
                        /\ ~tasks[j].cancel
  /\ HasFree(St, "run_thread_for_agent")
  /\ LET i == NewId(St, "run_thread_for_agent")
         s0 == [create_task(St, "run_thread_for_agent", target) EXCEPT
                  !.hist.after_stop[target] = None,
                  !.hist.cleared[target] = IF @ = -1 THEN i ELSE @]
     IN Commit(run_thread_for_agent(s0, i, target))

\* POST /api/threads/{id}/stop; without an active task it answers 400
stop_thread(t) ==
  /\ Stoppable(St, t)
  /\ Commit([stop_task(St, t) EXCEPT !.hist.after_stop[t] = -1])

\* ------------------------------------------------------- steps of a turn

\* history: one more failure in the turn of task i.  Kinds: "crash", an SDK or
\* driver error that run_agent catches; "exception", one that leaves the
\* stream; "timeout"
fault(s, i, kind) ==
  [s EXCEPT !.hist.faults = @ + 1, !.hist.last_fault = [task |-> i, kind |-> kind]]

Streaming(i) == tasks[i].pc = "stream" /\ ~tasks[i].cancel

\* the semaphore wait ends
acquire_permit(i) ==
  /\ tasks[i].pc = "acquire"
  /\ ~tasks[i].cancel
  /\ agent_semaphore > 0
  /\ Commit(admit(St, i))

\* a text message of the driver: text_delta is published; m is the marker
\* the text carries, kept in run_agent's collected_content
agent_text(i, m) ==
  /\ Streaming(i)
  /\ Commit([broadcast_to_thread(St, tasks[i].thread, "text_delta", m)
               EXCEPT !.tasks[i].text = @ \cup {m}, !.hist.texts = @ + 1])

\* the agent of a sub-thread calls the SignalStatus tool with status st; the
\* call is collected by run_agent whatever st is, and the tool answers a
\* status other than done and blocked with an error
signal_status(i, st) ==
  /\ Streaming(i)
  /\ parentId[tasks[i].thread] # NoThread
  /\ LET s1 == [St EXCEPT !.tasks[i].calls = Append(@, st), !.hist.signals = @ + 1]
     IN IF st \in {"done", "blocked"}
        THEN Commit(broadcast_status_signal_to_parent(s1, i, parentId[tasks[i].thread],
                                                      tasks[i].thread, st))
        ELSE Commit(s1)

\* the stream ends with run_agent's status message (session id of this run)
agent_finish(i) ==
  /\ Streaming(i)
  /\ Commit(succeed(St, i, determine_status(tasks[i].text, tasks[i].calls), i))

\* an SDK exception caught inside run_agent: an error message is yielded and
\* the stream ends without a status message, so final_status keeps "active"
agent_error_caught(i) ==
  /\ Streaming(i)
  /\ Commit(succeed(broadcast_to_thread(fault(St, i, "crash"), tasks[i].thread, "error", "agent"),
                    i, "active", None))

\* an exception leaves the stream: retry after RETRY_DELAY_SECONDS while
\* attempts remain, else the caller's "except Exception"
agent_raise(i) ==
  /\ Streaming(i)
  /\ IF tasks[i].attempt < MAX_AGENT_RETRIES
     THEN Commit([update_thread_status(fault(St, i, "exception"), tasks[i].thread, "running") EXCEPT
                    !.tasks[i].attempt = @ + 1, !.tasks[i].pc = "retry_sleep"])
     ELSE Commit(fail(fault(St, i, "exception"), i, "exception"))

\* asyncio.timeout(AGENT_TIMEOUT_SECONDS) expires: no retry
agent_timeout(i) ==
  /\ Streaming(i)
  /\ Commit(fail(fault(St, i, "timeout"), i, "timeout"))

\* the timeout of a worker's turn, with a store that fails in the handler
worker_timeout_raises(i, written) ==
  /\ Streaming(i)
  /\ IsWorker(St, i)
  /\ Commit(worker_error_raises(fault(St, i, "timeout"), i, written))

\* asyncio.sleep(RETRY_DELAY_SECONDS) is over
retry_wake(i) ==
  /\ tasks[i].pc = "retry_sleep"
  /\ ~tasks[i].cancel
  /\ Commit(begin_attempt(St, i))

\* CancelledError is raised in a suspended task whose cancel was requested
task_cancelled(i) ==
  /\ tasks[i].cancel
  /\ tasks[i].pc \in InTurn \cup {"queue_get"}
  /\ Commit(IF IsWorker(St, i) THEN worker_cancelled(St, i) ELSE turn_cancelled(St, i))

\* _notification_worker from queue.get() returning to its first suspension
\* inside the turn
worker_get(i) ==
  /\ tasks[i].pc = "queue_get"
  /\ ~tasks[i].cancel
  /\ tasks[i].queue # <<>>
  /\ LET t == tasks[i].thread
         g == queue_get(tasks[i].queue)
         s1 == [St EXCEPT !.tasks[i].queue = g.rest, !.tasks[i].cur = g.item,
                          !.tasks[i].attempt = 0,
                          !.hist.started[t] = Append(@, g.item),
                          !.hist.after_stop[t] = None,
                          !.hist.cleared[t] = IF @ = -1 THEN i ELSE @]
     IN Commit(try_admit(update_thread_status(s1, t, "pending"), i))

\* ------------------------------------------------------- spawning threads
\* The threads table as SpawnThread sees it: a row per thread, named by its
\* position, with its parent (None for a main thread) and the two settings
\* that are fixed at creation.
DEPTH_SAFETY_LIMIT == 10

\* db.create_thread: INSERT INTO threads
create_thread(s, parent_id, allow_nested_subthreads, max_thread_depth) ==
  [s EXCEPT !.thread_rows = Append(@, [parent_id |-> parent_id,
                                       allow_nested_subthreads |-> allow_nested_subthreads,
                                       max_thread_depth |-> max_thread_depth])]

\* db.get_thread_depth: follow parent_id up to a row without parent
RECURSIVE walk_parents(_, _, _)
walk_parents(rows, current_id, depth) ==
  IF rows[current_id].parent_id = None THEN depth
  ELSE IF depth + 1 > DEPTH_SAFETY_LIMIT THEN depth + 1
  ELSE walk_parents(rows, rows[current_id].parent_id, depth + 1)

get_thread_depth(rows, thread_id) == walk_parents(rows, thread_id, 0)

\* A mutant of can_spawn: the depth limit is off by one.
can_spawn_at_limit(rows, thread_id) ==
  LET current_depth == get_thread_depth(rows, thread_id)
  IN current_depth <= rows[thread_id].max_thread_depth
     /\ (current_depth = 0 \/ rows[thread_id].allow_nested_subthreads)

\* run_agent: whether the SpawnThread tool is among the turn's tools
can_spawn(rows, thread_id) ==
  LET current_depth == get_thread_depth(rows, thread_id)
  IN current_depth < rows[thread_id].max_thread_depth
     /\ (current_depth = 0 \/ rows[thread_id].allow_nested_subthreads)

\* POST /api/threads without parentId: a main thread with the request's settings
create_new_thread(allowNestedSubthreads, maxThreadDepth) ==
  /\ Len(thread_rows) < MaxRows
  /\ Commit(create_thread(St, None, allowNestedSubthreads, maxThreadDepth))

\* The SpawnThread tool called in a turn of thread parent_id, which has the
\* tool only if can_spawn: create_thread_for_agent gives the child the
\* parent's two settings.
create_thread_for_agent(parent_id) ==
  /\ Len(thread_rows) < MaxRows
  /\ can_spawn(thread_rows, parent_id)
  /\ Commit(create_thread(St, parent_id, thread_rows[parent_id].allow_nested_subthreads,
                          thread_rows[parent_id].max_thread_depth))

\* --------------------------------------------------------- rate limit
\* ServiceRegistry._message_timestamps: source thread -> times of the calls
\* that passed the check.  time.time() is hist.time, in seconds; it does not
\* move during a call.
\*   hist.accepted[t]: the times of all calls of t that passed the check
\*   hist.rejected[t]: how many calls of t were refused
\*   hist.handed[t]:   how many calls of t went on past the check
\*   hist.last_call[t]: the last call of t: its time, how many earlier
\*                      accepted calls were less than message_window old,
\*                      and the answer
NoCall == [time |-> 0, recent |-> 0, allowed |-> TRUE]

\* A mutant of recent_timestamps: a stamp exactly message_window old is kept.
recent_timestamps_inclusive(stamps, now_) ==
  SelectSeq(stamps, LAMBDA ts : now_ - ts <= message_window)

\* [ts for ts in stamps if now - ts < self.message_window]
recent_timestamps(stamps, now_) ==
  SelectSeq(stamps, LAMBDA ts : now_ - ts < message_window)

\* check_rate_limit: the stamps are pruned; a full list refuses, else the
\* call is recorded.  The answer is left in hist.last_call.
check_rate_limit(s, source_thread_id) ==
  LET now_ == s.hist.time
      kept == recent_timestamps(s.registry._message_timestamps[source_thread_id], now_)
      allowed == ~(Len(kept) >= message_rate_limit)
      recent == Len(SelectSeq(s.hist.accepted[source_thread_id],
                              LAMBDA ts : now_ - ts < message_window))
  IN [s EXCEPT !.registry._message_timestamps[source_thread_id] =
                  IF allowed THEN Append(kept, now_) ELSE kept,
               !.hist.accepted[source_thread_id] = IF allowed THEN Append(@, now_) ELSE @,
               !.hist.rejected[source_thread_id] = IF allowed THEN @ ELSE @ + 1,
               !.hist.last_call[source_thread_id] =
                  [time |-> now_, recent |-> recent, allowed |-> allowed],
               !.hist.calls = @ + 1]

\* The SendToThread tool up to registry.send_to_thread: a refused call
\* answers with the error and goes no further
send_to_thread(source_thread_id) ==
  /\ source_thread_id \in Threads
  /\ LET s1 == check_rate_limit(St, source_thread_id)
     IN IF ~s1.hist.last_call[source_thread_id].allowed THEN Commit(s1)
        ELSE Commit([s1 EXCEPT !.hist.handed[source_thread_id] = @ + 1])

\* the clock moves on by d seconds
advance_time(d) ==
  /\ d > 0
  /\ Commit([St EXCEPT !.hist.time = @ + d, !.hist.ticks = @ + 1])

\* history: the last SendToThread call: its source and how it was answered
\* ("rate_limited", "required" for a missing thread_id or message,
\* "not_found" for the None of send_to_thread_for_agent, "sent")
NoToolCall == [source |-> NoThread, answer |-> "none"]

\* The whole SendToThread tool, called by the agent of a running turn of the
\* source.  thread_id is a thread, or NoThread for an id that is missing or
\* names no thread; message tells whether the message argument is non-empty.
\* The rate limit is checked, and the call recorded, before the arguments
\* are looked at.
send_to_thread_tool(source_thread_id, thread_id, message) ==
  /\ \E j \in TaskIds : /\ tasks[j].thread = source_thread_id
                        /\ tasks[j].pc = "stream"
                        /\ ~tasks[j].cancel
  /\ LET s1 == check_rate_limit(St, source_thread_id)
         answered(s, a) == [s EXCEPT !.hist.last_tool = [source |-> source_thread_id,
                                                         answer |-> a]]
         i == NewId(St, "run_thread_for_agent")
         s2 == [create_task(s1, "run_thread_for_agent", thread_id) EXCEPT
                  !.hist.after_stop[thread_id] = None,
                  !.hist.cleared[thread_id] = IF @ = -1 THEN i ELSE @,
                  !.hist.handed[source_thread_id] = @ + 1]
     IN IF ~s1.hist.last_call[source_thread_id].allowed
        THEN Commit(answered(s1, "rate_limited"))
        ELSE IF thread_id = NoThread
        THEN Commit(answered(s1, IF message THEN "not_found" ELSE "required"))
        ELSE IF ~message
        THEN Commit(answered(s1, "required"))
        ELSE IF parentId[thread_id] # source_thread_id \/ threads[thread_id].archived_at
        THEN Commit(answered(s1, "not_found"))
        ELSE /\ HasFree(St, "run_thread_for_agent")
             /\ Commit(answered(run_thread_for_agent(s2, i, thread_id), "sent"))

\* ------------------------------------------------- pending questions
\* ServiceRegistry._pending_questions: thread -> (event, answers).  Every
\* wait_for_answer call has its own asyncio.Event, named here by the call.
\* The lock is never held across a suspension, so each locked block is one
\* step.
WaiterIds == 1..MaxWaiters
Answers == {"yes", "no"}
NoAnswer == "None"
NoSlot == [event |-> None, answers |-> NoAnswer]
NoWaiter == [pc |-> "none", thread |-> NoThread, set |-> FALSE, result |-> NoAnswer]

\* event.set() on the event of a slot
event_set(s, slot) == [s EXCEPT !.registry.waiters[slot.event].set = TRUE]

set_pending_answer(s, t, answers) ==
  LET slot == s.registry._pending_questions[t]
  IN IF slot # NoSlot
     THEN event_set([s EXCEPT !.registry._pending_questions[t].answers = answers,
                              !.hist.given[slot.event] = answers], slot)
     ELSE s

clear_pending_question(s, t) ==
  LET slot == s.registry._pending_questions[t]
  IN IF slot # NoSlot
     THEN [event_set(s, slot) EXCEPT !.registry._pending_questions[t] = NoSlot]
     ELSE s

\* wait_for_answer up to event.wait(): the slot is assigned unconditionally
wait_for_answer(w, t) ==
  /\ registry.waiters[w].pc = "none"
  /\ Commit([St EXCEPT !.registry._pending_questions[t] = [event |-> w, answers |-> NoAnswer],
                       !.registry.waiters[w] = [NoWaiter EXCEPT !.pc = "waiting", !.thread = t]])

\* event.wait() returned: the answers of whatever slot the thread has now,
\* then the finally block pops the thread's slot
wait_for_answer_wake(w) ==
  /\ registry.waiters[w].pc = "waiting"
  /\ registry.waiters[w].set
  /\ LET t == registry.waiters[w].thread
     IN Commit([St EXCEPT !.registry.waiters[w].pc = "returned",
                          !.registry.waiters[w].result = registry._pending_questions[t].answers,
                          !.registry._pending_questions[t] = NoSlot])

\* asyncio.wait_for timed out: None, and the finally block pops the slot
wait_for_answer_timeout(w) ==
  /\ registry.waiters[w].pc = "waiting"
  /\ ~registry.waiters[w].set
  /\ Commit([St EXCEPT !.registry.waiters[w].pc = "returned",
                       !.registry._pending_questions[registry.waiters[w].thread] = NoSlot])

\* POST /api/threads/{id}/answer; 404 for an unknown thread
submit_answer(t, answers) ==
  /\ t \in Threads
  /\ Commit(set_pending_answer(St, t, answers))

\* ------------------------------------------------------ clearing messages

\* DELETE /api/threads/{id}/messages
clear_messages(t) ==
  /\ t \in Threads
  /\ Commit(broadcast_to_thread(clear_thread_messages(St, t), t, "messages_cleared", t))

\* POST /api/threads/{id}/plan-action with action "compact"
handle_plan_action_compact(t) ==
  /\ t \in Threads
  /\ LET s1 == clear_thread_messages(set_pending_answer(St, t, "compact"), t)
         s2 == update_thread_status(add_message(s1, t, "system"), t, "active")
         s3 == broadcast_to_thread(s2, t, "plan_action", "compact")
     IN Commit(broadcast_to_thread(s3, t, "messages_cleared", t))

\* --------------------------------------------------------- archive

cleanup_thread_resources(s, t) ==
  LET s1 == clear_pending_question(close_thread_subscribers(clear_thread_events(s, t), t), t)
      s2 == IF s1.notification_workers[t] # None
            THEN [cancel(s1, s1.notification_workers[t]) EXCEPT !.notification_workers[t] = None]
            ELSE s1
      s3 == [s2 EXCEPT !.notification_queues[t] = None]
  IN stop_task(s3, t)

\* history: the thread row as it was when the last archive request came in
NoSnapshot == [status |-> "active", session_id |-> None, archived_at |-> FALSE, updated_at |-> 0,
               auto_react |-> TRUE]

\* POST /api/threads/{id}/archive; 400 when already archived
archive_thread_endpoint(t) ==
  /\ ~threads[t].archived_at
  /\ Commit([put_to_all_subscribers(archive_thread(cleanup_thread_resources(St, t), t),
                                    "thread_archived", t)
               EXCEPT !.hist.archives = @ + 1, !.hist.before_archive[t] = threads[t]])

\* archive_thread_for_agent, called by the ArchiveThread tool of the agent of
\* a running turn: the update of the row and the broadcast, nothing else;
\* for a thread that is archived already the update matches no row and the
\* tool answers with an error
archive_thread_for_agent(t) ==
  /\ \E j \in TaskIds : tasks[j].pc = "stream" /\ ~tasks[j].cancel
  /\ ~threads[t].archived_at
  /\ Commit([put_to_all_subscribers(archive_thread(St, t), "thread_archived", t)
               EXCEPT !.hist.archives = @ + 1, !.hist.before_archive[t] = threads[t]])

\* POST /api/threads/{id}/unarchive; 400 when not archived
unarchive_thread_endpoint(t) ==
  /\ threads[t].archived_at
  /\ Commit(put_to_all_subscribers(unarchive_thread(St, t), "thread_unarchived", t))


\* --------------------------------------------------------------- watchdog
\* The host's local time is UTC plus its offset, in seconds.  The offset is
\* the environment's; hist.utcoffset holds it from the first round on.
UtcOffsets == {-3600, 0, 3600}
NoOffset == 1

\* get_all_threads(): ORDER BY created_at DESC
ThreadOrder == <<"g", "c", "p">>

\* _notify_parent_of_stuck_child
notify_parent_of_stuck_child(s, parent_id, child) ==
  LET s1 == broadcast_to_thread(s, parent_id, "subthread_status", "needs_attention")
  IN broadcast_to_thread(add_message(s1, parent_id, "user"), parent_id, "message", "stuck")

\* The body of the loop over all_threads for one row of the snapshot.  The
\* row's updated_at was written as datetime.now().isoformat(), the naive
\* local time, and is read here as if it were UTC.
watchdog_check(s, row, t, now_utc, utcoffset) ==
  LET updated == row.updated_at + utcoffset
      elapsed == now_utc - updated
      s1 == update_thread_status(s, t, "needs_attention")
      s2 == broadcast_to_thread(s1, t, "error", "stuck")
      s3 == [broadcast_to_thread(s2, t, "status_change", "needs_attention")
               EXCEPT !.hist.recovered[t] = TRUE]
  IN IF row.archived_at \/ row.status # "running" THEN s
     ELSE IF ~(elapsed > WATCHDOG_STUCK_THRESHOLD_SECONDS) THEN s
     ELSE IF parentId[t] # NoThread THEN notify_parent_of_stuck_child(s3, parentId[t], t)
     ELSE s3

RECURSIVE watchdog_loop(_, _, _, _, _)
watchdog_loop(s, all_threads, k, now_utc, utcoffset) ==
  IF k > Len(ThreadOrder) THEN s
  ELSE watchdog_loop(watchdog_check(s, all_threads[ThreadOrder[k]], ThreadOrder[k],
                                    now_utc, utcoffset),
                     all_threads, k + 1, now_utc, utcoffset)

\* One round of _stuck_thread_watchdog: the sleep ends, the clock and the
\* threads are read, the rows are checked in order.  No step of it suspends.
stuck_thread_watchdog(utcoffset) ==
  /\ hist.utcoffset \in {NoOffset, utcoffset}
  /\ LET now_utc == hist.now + WATCHDOG_INTERVAL_SECONDS
         s0 == [St EXCEPT !.hist.now = now_utc, !.hist.watchdogs = @ + 1,
                          !.hist.utcoffset = utcoffset]
     IN Commit(watchdog_loop(s0, threads, 1, now_utc, utcoffset))


\* ------------------------------------------------- MessageStreamProcessor
\* The processor of one turn on thread "p", attempt by attempt.  A string is
\* the sequence of its characters' chunks, so "".join is concatenation.
\*   collected_content, collected_blocks, pending_tool_ids: the object's fields
\*   rows: the assistant message rows the turn created (content, blocks)
\*   message_id: the row of the current processor; _message: its last saved copy
\*   complete: the assistantMessage carried by the turn's `complete` event
\*   inbound, handled: the messages the current processor has handled, and how
\*   many were handled in the run (history)
NoMessage == [content |-> <<>>, blocks |-> <<>>]
NoProcessor == [pc |-> "none", attempt |-> 0, collected_content |-> <<>>,
                collected_blocks |-> <<>>, pending_tool_ids |-> <<>>, rows |-> <<>>,
                message_id |-> 0, _message |-> NoMessage, complete |-> NoMessage,
                inbound |-> <<>>, handled |-> 0]

Streaming_ == <<"[streaming...]">>
NoResponse == <<"No response generated">>
NoId == ""

RECURSIVE Join(_)
Join(chunks) == IF chunks = <<>> THEN <<>> ELSE Head(chunks) \o Join(Tail(chunks))

\* "".join(self.collected_content) or "No response generated"
get_full_content(pr) ==
  IF Join(pr.collected_content) = <<>> THEN NoResponse ELSE Join(pr.collected_content)

\* MessageStreamProcessor.__init__: fresh fields and a new assistant row
processor_init(s) ==
  LET row == [content |-> Streaming_, blocks |-> <<>>]
      s1 == add_message(s, "p", "assistant")
  IN [s1 EXCEPT !.processor.collected_content = <<>>,
                !.processor.collected_blocks = <<>>,
                !.processor.pending_tool_ids = <<>>,
                !.processor.rows = Append(@, row),
                !.processor.message_id = Len(s.processor.rows) + 1,
                !.processor.inbound = <<>>,
                !.processor._message = row]

\* _save_current_state: update_message(message_id, content, blocks)
save_current_state(s) ==
  LET pr == s.processor
      row == [content |-> get_full_content(pr), blocks |-> pr.collected_blocks]
  IN [s EXCEPT !.processor.rows[pr.message_id] = row, !.processor._message = row]

\* the index of the first tool_use block with this id, 0 when there is none
FirstBlock(blocks, id) ==
  IF \E k \in 1..Len(blocks) : blocks[k].type = "tool_use" /\ blocks[k].id = id
  THEN CHOOSE k \in 1..Len(blocks) :
         /\ blocks[k].type = "tool_use" /\ blocks[k].id = id
         /\ \A j \in 1..(k - 1) : ~(blocks[j].type = "tool_use" /\ blocks[j].id = id)
  ELSE 0

\* "for block in collected_blocks: if tool_use and id matches: isComplete; break"
mark_complete(blocks, id) ==
  IF FirstBlock(blocks, id) = 0 THEN blocks
  ELSE [blocks EXCEPT ![FirstBlock(blocks, id)].isComplete = TRUE]

\* list.remove(x): the first occurrence
RemoveFirst(q, x) ==
  LET k == CHOOSE k \in 1..Len(q) : q[k] = x /\ \A j \in 1..(k - 1) : q[j] # x
  IN SubSeq(q, 1, k - 1) \o SubSeq(q, k + 1, Len(q))

Block(type, id, content) ==
  [type |-> type, id |-> id, content |-> content, input |-> "", isComplete |-> type # "tool_use"]

\* process_message, msg.type == "text"
process_text(s, c) ==
  LET bs == s.processor.collected_blocks
      merged == IF bs # <<>> /\ bs[Len(bs)].type = "text"
                THEN [bs EXCEPT ![Len(bs)].content = @ \o c]
                ELSE Append(bs, Block("text", NoId, c))
  IN broadcast_to_thread([s EXCEPT !.processor.collected_content = Append(@, c),
                                   !.processor.collected_blocks = merged],
                         "p", "text_delta", c)

\* process_message, msg.type == "tool_use"
process_tool_use(s, tool_id) ==
  LET s1 == IF tool_id # NoId
            THEN [s EXCEPT !.processor.pending_tool_ids = Append(@, tool_id)]
            ELSE s
  IN broadcast_to_thread([s1 EXCEPT !.processor.collected_blocks =
                                       Append(@, Block("tool_use", tool_id, <<>>))],
                         "p", "tool_use", tool_id)

\* process_message, msg.type == "tool_input" (with a non-empty input)
process_tool_input(s, tool_id) ==
  LET bs == s.processor.collected_blocks
      k == FirstBlock(bs, tool_id)
  IN IF tool_id = NoId THEN s
     ELSE broadcast_to_thread(
            IF k = 0 THEN s ELSE [s EXCEPT !.processor.collected_blocks[k].input = "full"],
            "p", "tool_input", tool_id)

\* process_message, msg.type == "tool_result"
process_tool_result(s, given) ==
  LET pending == s.processor.pending_tool_ids
      fifo == given = NoId /\ pending # <<>>
      tool_use_id == IF fifo THEN Head(pending) ELSE given
      rest == IF fifo THEN Tail(pending)
              ELSE IF given # NoId /\ given \in Range(pending) THEN RemoveFirst(pending, given)
              ELSE pending
      bs == IF tool_use_id # NoId THEN mark_complete(s.processor.collected_blocks, tool_use_id)
            ELSE s.processor.collected_blocks
  IN broadcast_to_thread([s EXCEPT !.processor.pending_tool_ids = rest,
                                   !.processor.collected_blocks = bs],
                         "p", "tool_result", tool_use_id)

\* process_message: the branch of the message type, then _save_current_state
process_message(s, msg) ==
  LET s1 == CASE msg.type = "text" -> process_text(s, msg.content)
              [] msg.type = "tool_use" -> process_tool_use(s, msg.id)
              [] msg.type = "tool_input" -> process_tool_input(s, msg.id)
              [] msg.type = "tool_result" -> process_tool_result(s, msg.id)
  IN save_current_state([s1 EXCEPT !.processor.handled = @ + 1,
                                   !.processor.inbound = Append(@, msg)])

\* finalize: "while self.pending_tool_ids: await self._complete_pending_tool()"
RECURSIVE finalize(_)
finalize(s) ==
  IF s.processor.pending_tool_ids = <<>> THEN s
  ELSE LET tool_id == Head(s.processor.pending_tool_ids)
           s1 == [s EXCEPT !.processor.pending_tool_ids = Tail(@),
                           !.processor.collected_blocks = mark_complete(@, tool_id)]
       IN finalize(broadcast_to_thread(s1, "p", "tool_result", tool_id))

\* run_agent_with_retry, one attempt up to the first fetch from the driver
processor_attempt(s) ==
  LET s1 == IF s.processor.attempt > 0
            THEN broadcast_to_thread(add_message(s, "p", "system"), "p", "message", "retry")
            ELSE s
      s2 == processor_init(s1)
      s3 == broadcast_to_thread(update_thread_status(s2, "p", "running"), "p",
                                "status_change", "running")
  IN [s3 EXCEPT !.processor.pc = "stream"]

\* the turn starts: first attempt
processor_begin ==
  /\ processor.pc = "none"
  /\ Commit(processor_attempt(St))

\* the driver yields a message and process_message handles it
processor_message(msg) ==
  /\ processor.pc = "stream"
  /\ Commit(process_message(St, msg))

\* the stream ends: finalize, save, and the caller's `complete` with _message
processor_finish ==
  /\ processor.pc = "stream"
  /\ LET s1 == save_current_state(finalize(St))
         s2 == broadcast_to_thread(update_thread_status(s1, "p", "active"), "p",
                                   "complete", "active")
     IN Commit([s2 EXCEPT !.processor.pc = "done",
                          !.processor.complete = s1.processor._message])

\* an exception leaves the stream: the state is saved, then retry or give up
processor_raise ==
  /\ processor.pc = "stream"
  /\ LET s1 == save_current_state(fault(St, None, "exception"))
     IN IF processor.attempt < MAX_AGENT_RETRIES
        THEN Commit([update_thread_status(s1, "p", "running") EXCEPT
                       !.processor.attempt = @ + 1, !.processor.pc = "retry_sleep"])
        ELSE Commit([s1 EXCEPT !.processor.pc = "failed"])

\* the retry delay is over: the next attempt, with a new processor
processor_retry ==
  /\ processor.pc = "retry_sleep"
  /\ Commit(processor_attempt(St))

\* ---------------------------------------------------------------------- init

\* the state after start-up, the semaphore constructed with `permits`
InitWith(permits) ==
  /\ threads = [t \in Threads |-> [status |-> "active", session_id |-> None,
                                   archived_at |-> FALSE, updated_at |-> 0,
                                   auto_react |-> TRUE]]
  /\ messages = [t \in Threads |-> <<>>]
  /\ events = [t \in Threads |-> <<>>]
  /\ lastSeq = 0
  /\ thread_subscribers = [t \in Threads |-> <<>>]
  /\ subs = [x \in SubIds |-> [pc |-> "none", thread |-> NoThread, last_event_id |-> -1,
                               queue |-> <<>>, delivered |-> <<>>]]
  /\ active_tasks = [t \in Threads |-> None]
  /\ tasks = [i \in TaskIds |-> NoTask]
  /\ notification_queues = [t \in Threads |-> None]
  /\ notification_workers = [t \in Threads |-> None]
  /\ agent_semaphore = permits
  /\ processor = NoProcessor
  /\ thread_rows = <<>>
  /\ registry = [_pending_questions |-> [t \in Threads |-> NoSlot],
                  waiters |-> [w \in WaiterIds |-> NoWaiter],
                  _message_timestamps |-> [t \in Threads |-> <<>>]]
  /\ hist = [appended |-> 0, enqueued |-> 0, faults |-> 0, archives |-> 0, texts |-> 0, signals |-> 0,
            started |-> [t \in Threads |-> <<>>],
            after_stop |-> [t \in Threads |-> None],
            clears |-> 0, now |-> 0,
            last_fault |-> [task |-> None, kind |-> "none"],
            time |-> 0, ticks |-> 0, calls |-> 0,
            accepted |-> [t \in Threads |-> <<>>],
            rejected |-> [t \in Threads |-> 0],
            handed |-> [t \in Threads |-> 0],
            last_call |-> [t \in Threads |-> NoCall],
            before_archive |-> [t \in Threads |-> NoSnapshot],
            cleared |-> [t \in Threads |-> None],
            first_read |-> [t \in Threads |-> Unread],
            watchdogs |-> 0, utcoffset |-> NoOffset,
            recovered |-> [t \in Threads |-> FALSE], waited |-> {},
            given |-> [w \in WaiterIds |-> NoAnswer],
            last_tool |-> NoToolCall, configs |-> 0,
            page |-> NoPage, pages |-> 0]

Init == InitWith(MAX_CONCURRENT_AGENTS)

\* ------------------------------------------------------------ bus harness
BusPublish == \E t \in Pair, st \in {"new_message"} :
                 /\ lastSeq < MaxEvents
                 /\ update_status(t, st)
BusSubscribe == \E x \in SubIds, t \in Pair, last \in -1..MaxEvents :
                 /\ last <= lastSeq
                 /\ stream_thread_events(x, t, last)
BusStart == \E x \in SubIds : event_generator_start(x)
BusDeliver == \E x \in SubIds : event_generator_next(x)
BusDisconnect == \E x \in SubIds : client_disconnect(x)

NextBus == BusPublish \/ BusSubscribe \/ BusStart \/ BusDeliver \/ BusDisconnect

SpecBus == Init /\ [][NextBus]_vars

\* ------------------------------------------------------------ orchestrator
\* Turn lifecycle, registry, semaphore, notification worker and archive on the
\* two threads.  The agent's replies carry no status marker here (SpecSub
\* explores those), and the thread that is archived is the parent, the one
\* that owns a notification queue and worker.
Archivable == {"p"}

Send == \E t \in Pair : send_message(t)
SendToThread == \E t \in Pair : send_to_thread_for_agent(t, parentId[t])
Stop == \E t \in Pair : stop_thread(t)
Archive == \E t \in Archivable : hist.archives < MaxArchives /\ archive_thread_endpoint(t)
Unarchive == \E t \in Archivable : unarchive_thread_endpoint(t)
Acquire == \E i \in TaskIds : acquire_permit(i)
Finish == \E i \in TaskIds : agent_finish(i)
ErrorCaught == \E i \in TaskIds : hist.faults < MaxFaults /\ agent_error_caught(i)
Raise == \E i \in TaskIds : hist.faults < MaxFaults /\ agent_raise(i)
Timeout == \E i \in TaskIds : hist.faults < MaxFaults /\ agent_timeout(i)
RetryWake == \E i \in TaskIds : retry_wake(i)
Cancelled == \E i \in TaskIds : task_cancelled(i)
WorkerGet == \E i \in TaskIds : worker_get(i)

Next == \/ Send \/ SendToThread \/ Stop \/ Archive \/ Unarchive
        \/ Acquire \/ Finish \/ ErrorCaught \/ Raise \/ Timeout
        \/ RetryWake \/ Cancelled \/ WorkerGet

Spec == Init /\ [][Next]_vars

\* ------------------------------------------------------- sub-thread status
\* Turns of the sub-thread "c" whose agent writes status markers and calls
\* SignalStatus, up to the turn's end (result, caught error, timeout, cancel).
Markers == {"[DONE]", "[BLOCKED]"}
Signals == {"done", "blocked"}

SendSub == send_message("c")
Text == \E i \in TaskIds, m \in Markers : hist.texts < MaxText /\ agent_text(i, m)
Signal == \E i \in TaskIds, st \in Signals : hist.signals < MaxSignals /\ signal_status(i, st)

NextSub == \/ SendSub \/ Text \/ Signal \/ Finish \/ ErrorCaught \/ Timeout \/ Cancelled

SpecSub == Init /\ [][NextSub]_vars

\* ------------------------------------------------------ processor harness
\* One turn's processor fed with driver messages: text chunks, tool_use with
\* and without id, tool_input, tool_result with a known, unknown or no id.
TextChunks == {<<"partial">>, <<"more">>}
ToolIds == {"A", "B"}
DriverMessages ==
  {[type |-> "text", content |-> c, id |-> NoId] : c \in TextChunks}
    \cup {[type |-> ty, content |-> <<>>, id |-> id] :
            ty \in {"tool_use", "tool_result"}, id \in ToolIds \cup {NoId}}
    \cup {[type |-> "tool_input", content |-> <<>>, id |-> id] : id \in ToolIds}

ProcBegin == processor_begin
ProcMessage == \E msg \in DriverMessages :
                 processor.handled < MaxMsgs /\ processor_message(msg)
ProcFinish == processor_finish
ProcRaise == hist.faults < MaxFaults /\ processor_raise
ProcRetry == processor_retry

NextProc == ProcBegin \/ ProcMessage \/ ProcFinish \/ ProcRaise \/ ProcRetry

SpecProc == Init /\ [][NextProc]_vars

\* ------------------------------------------------- SpecAsk: the rendezvous
\* AskUserQuestion / ExitPlanMode permission requests and the user's answers.
Ask == \E w \in WaiterIds, t \in Pair : wait_for_answer(w, t)
Answer == \E t \in Pair, a \in Answers : submit_answer(t, a)
Wake == \E w \in WaiterIds : wait_for_answer_wake(w)
AskTimeout == \E w \in WaiterIds : wait_for_answer_timeout(w)

NextAsk == Ask \/ Answer \/ Wake \/ AskTimeout \/ Archive

SpecAsk == Init /\ [][NextAsk]_vars

\* ------------------------------------------------- SpecClear: clearing
\* Turns on the threads while their messages are cleared.
Clear == \E t \in Pair : hist.clears < MaxClears /\ clear_messages(t)
Compact == \E t \in Pair : hist.clears < MaxClears /\ handle_plan_action_compact(t)

NextClear == Send \/ Clear \/ Compact \/ Acquire \/ Finish \/ WorkerGet

SpecClear == Init /\ [][NextClear]_vars

\* ------------------------------------------------- SpecSpawn: thread trees
\* Main threads created by the user, every other thread by SpawnThread.
CreateMain == \E a \in BOOLEAN, m \in 1..MaxDepthSetting : create_new_thread(a, m)
SpawnThread == \E parent_id \in 1..Len(thread_rows) : create_thread_for_agent(parent_id)

NextSpawn == CreateMain \/ SpawnThread

SpecSpawn == Init /\ [][NextSpawn]_vars

\* ------------------------------------------------- SpecRate: the rate limit
TimeSteps == {1, 59}
CallTool == \E t \in Pair : hist.calls < MaxCalls /\ send_to_thread(t)
Tick == \E d \in TimeSteps : hist.ticks < MaxTicks /\ advance_time(d)

NextRate == CallTool \/ Tick

SpecRate == Init /\ [][NextRate]_vars

\* ------------------------------------------------- SpecNested: three levels
\* Turns on the nested sub-thread "g": their completions and errors reach "c",
\* a thread that has a parent of its own, through c's notification worker.
SendNested == send_message("g")

NextNested == SendNested \/ Acquire \/ Finish \/ Timeout \/ WorkerGet

SpecNested == Init /\ [][NextNested]_vars

\* ------------------------------------------------- SpecWatch: the watchdog
\* Turns on the root and its sub-thread, the archive of the root, and the
\* rounds of the watchdog on a host with one of the offsets.
Watchdog == \E utcoffset \in UtcOffsets :
               hist.watchdogs < MaxWatchdogs /\ stuck_thread_watchdog(utcoffset)

NextWatch == Send \/ Acquire \/ Finish \/ Archive \/ Cancelled \/ Watchdog

SpecWatch == Init /\ [][NextWatch]_vars

\* ------------------------------------------------- SpecArchive: archiving
\* The root thread with what an archive has to clean up: SSE connections, a
\* pending question, a notification queue and worker (after the sub-thread
\* completed), a registered turn, stored events; archived through the HTTP
\* endpoint or through the ArchiveThread tool.
\* the next connection and the next call are the lowest free ones
Connect == \E x \in SubIds, t \in Archivable :
             /\ \A y \in SubIds : y < x => subs[y].pc # "none"
             /\ stream_thread_events(x, t, -1)
AskRoot == \E w \in WaiterIds, t \in Archivable :
             /\ \A v \in WaiterIds : v < w => registry.waiters[v].pc # "none"
             /\ wait_for_answer(w, t)
ArchiveTool == \E t \in Archivable : hist.archives < MaxArchives /\ archive_thread_for_agent(t)

NextArchive == \/ Send \/ Acquire \/ Finish \/ Connect \/ AskRoot
               \/ Archive \/ ArchiveTool

SpecArchive == Init /\ [][NextArchive]_vars

\* ------------------------------------------------- SpecFeed: what is sent
\* SSE connections to both threads, with and without last_event_id, while
\* events are published and the root is archived and restored.
Listen == \E x \in SubIds, t \in Pair, last \in {-1, 0} : stream_thread_events(x, t, last)

NextFeed == \/ Listen \/ BusStart \/ BusDeliver \/ BusPublish \/ Archive \/ Unarchive

SpecFeed == Init /\ [][NextFeed]_vars

\* ------------------------------------------------- SpecTool: SendToThread
\* A turn on the root whose agent calls SendToThread with every kind of
\* argument, while the sub-thread is archived and restored and time passes.
SendRoot == send_message("p")
ToolCall == \E thread_id \in Threads \cup {NoThread}, message \in BOOLEAN :
               hist.calls < MaxCalls /\ send_to_thread_tool("p", thread_id, message)
ArchiveSub == hist.archives < MaxArchives /\ archive_thread_endpoint("c")

NextTool == SendRoot \/ ToolCall \/ ArchiveSub \/ Tick

SpecTool == Init /\ [][NextTool]_vars

\* ------------------------------------------------- SpecReact: auto-react
\* Turns on the nested sub-thread, whose completions reach its parent "c",
\* and the turns of c's notification worker, while c's auto_react is switched.
Config == \E autoReact \in BOOLEAN :
            hist.configs < MaxConfigs /\ update_config("c", autoReact)

NextReact == SendNested \/ Acquire \/ Finish \/ WorkerGet \/ Config

SpecReact == Init /\ [][NextReact]_vars

\* ------------------------------------------------- SpecStatus: classification
\* Turns of the sub-thread whose agent writes text with and without markers
\* and calls SignalStatus with valid and invalid statuses, in any order.
Chunks == Markers \cup {"plain"}
SignalArgs == Signals \cup {"other"}

SendChild == send_message("c")
Chunk == \E i \in TaskIds, m \in Chunks : hist.texts < MaxChunks /\ agent_text(i, m)
SignalAny == \E i \in TaskIds, st \in SignalArgs :
               hist.signals < MaxSignals /\ signal_status(i, st)

NextStatus == SendChild \/ Chunk \/ SignalAny \/ Finish

SpecStatus == Init /\ [][NextStatus]_vars

\* ------------------------------------------------- SpecWorker: the workers
\* Turns on the sub-thread notify the root; the root's worker runs them, is
\* cancelled by an archive of the root, or dies in its error handler.
HandlerRaises == \E i \in TaskIds, written \in BOOLEAN :
                   hist.faults < MaxFaults /\ worker_timeout_raises(i, written)

NextWorker == \/ SendChild \/ Acquire \/ Finish \/ WorkerGet \/ Timeout
              \/ HandlerRaises \/ Archive \/ Unarchive \/ Cancelled

SpecWorker == Init /\ [][NextWorker]_vars

\* ------------------------------------------------- SpecStuck: recovered turns
\* Turns on the sub-thread that fail and are retried, and the rounds of the
\* watchdog on a host with one of the offsets.
NextStuck == SendChild \/ Raise \/ RetryWake \/ Finish \/ Watchdog

SpecStuck == Init /\ [][NextStuck]_vars

\* ------------------------------------------------- SpecAdmit: admission
\* MAINTHREAD_MAX_AGENTS is the environment's: the semaphore starts with one
\* permit or with MAX_CONCURRENT_AGENTS.  Turns on the root, sent by the
\* user, and on its sub-thread, sent by the root's agent while its own turn
\* holds a permit, end in each way a turn can end; a newer turn on a thread
\* cancels the one before.
\* The event loop runs every task that is ready: a waiter of the semaphore
\* when a permit is free, a sleeper whose delay is over, a task whose
\* cancellation was requested.
InitAdmit == \E permits \in {1, MAX_CONCURRENT_AGENTS} : InitWith(permits)

NextAdmit == \/ SendRoot \/ SendToThread \/ Acquire \/ Finish \/ Raise
             \/ Timeout \/ RetryWake \/ Cancelled

FairAdmit ==
  \A i \in TurnIds : /\ WF_vars(acquire_permit(i))
                     /\ WF_vars(retry_wake(i))
                     /\ WF_vars(task_cancelled(i))

SpecAdmit == InitAdmit /\ [][NextAdmit]_vars /\ FairAdmit

\* ------------------------------------------------- SpecPage: pagination
\* Pages of the root's messages, requested with limits from below 1 to above
\* the clamp and offsets from below 0 to beyond the total, while turns add
\* messages.
Limits == 0..MaxLimit \cup {MAX_PAGE_LIMIT + 1}
Offsets == -1..(2 * MaxTasks + 1)

GetPage == \E limit \in Limits, offset \in Offsets :
             hist.pages < MaxPages /\ get_thread_messages("p", limit, offset)

NextPage == SendRoot \/ Finish \/ GetPage

SpecPage == Init /\ [][NextPage]_vars

\* ------------------------------------------------------------------ claims

StrictlyIncreasing(q) == \A j, k \in 1..Len(q) : j < k => q[j] < q[k]
Last(q) == q[Len(q)]

\* a turn task (send_message or run_thread_for_agent) that has not ended and
\* whose cancellation was not requested
LiveTurn(i) == tasks[i].kind \in TurnKinds /\ tasks[i].pc \in InTurn /\ ~tasks[i].cancel

\* C1: the registry entry of a thread stays bound to the newest registered
\* turn until that turn itself ends, is stopped or is superseded: every turn
\* task that is still live is the one the registry holds for its thread.
C1_RegistryHoldsNewest ==
  \A i \in TaskIds : LiveTurn(i) => active_tasks[tasks[i].thread] = i

\* C2: after stop(t) directly followed by send_message(t), the only turn
\* running on t is the new one, and a task publishes `stopped` at most once
\* and only when it was cancelled.
C2_StopThenSend ==
  /\ \A t \in Threads : hist.after_stop[t] \in TaskIds =>
        \A i \in TaskIds : (tasks[i].thread = t /\ Running(St, i)) => i = hist.after_stop[t]
  /\ \A i \in TaskIds : tasks[i].stopped <= 1 /\ (tasks[i].stopped = 1 => tasks[i].cancel)

\* C3: at most one turn per thread is inside run_agent_with_retry, whichever
\* entry point started it (cancel-requested tasks are not counted).
C3_OneTurnPerThread ==
  \A t \in Threads :
    Cardinality({i \in TaskIds : /\ tasks[i].thread = t
                                 /\ tasks[i].pc \in {"stream", "retry_sleep"}
                                 /\ ~tasks[i].cancel}) <= 1

\* C4: a run of a sub-thread that has terminated (result, error, timeout or
\* cancel) has published exactly one subthread_status on its parent.
C4_ExactlyOneSubthreadStatus ==
  \A i \in TaskIds :
    (tasks[i].kind \in TurnKinds /\ tasks[i].pc = "done"
       /\ parentId[tasks[i].thread] # NoThread) => tasks[i].sub_status = 1

DeliveredIds(x) == [k \in 1..Len(subs[x].delivered) |-> subs[x].delivered[k].id]
LogIds(t) == [k \in 1..Len(events[t]) |-> events[t][k].seq_id]

\* C5: a subscriber that connected with last_event_id = n has been sent only
\* events with seq-id > n, each once and in ascending order, and once its
\* queue is drained it has been sent every stored event with seq-id > n.
C5_ReplayExactlyOnce ==
  \A x \in SubIds :
    (subs[x].pc \in {"live", "closed"} /\ subs[x].last_event_id # -1) =>
       /\ StrictlyIncreasing(DeliveredIds(x))
       /\ \A k \in 1..Len(subs[x].delivered) : DeliveredIds(x)[k] > subs[x].last_event_id
       /\ (subs[x].pc = "live" /\ subs[x].queue = <<>>) =>
             \A e \in Range(get_events_since(St, subs[x].thread, subs[x].last_event_id)) :
                e.seq_id \in Range(DeliveredIds(x))

\* C6: what a subscriber has been sent since it connected is a contiguous
\* piece of the thread's persisted log, in log order (nothing skipped,
\* repeated or reordered), and the whole rest of the log once its queue is
\* drained.
C6_SuffixOfLog ==
  \A x \in SubIds :
    subs[x].pc \in {"live", "closed"} =>
       LET ids == DeliveredIds(x)
           log == LogIds(subs[x].thread)
       IN /\ \E k \in 0..Len(log) :
               /\ k + Len(ids) <= Len(log)
               /\ \A j \in 1..Len(ids) : ids[j] = log[k + j]
          /\ (subs[x].pc = "live" /\ subs[x].queue = <<>> /\ ids # <<>>) =>
                Last(ids) = Last(log)

\* C7 (as stated): the seq-ids of each thread's events are 1, 2, 3, ...
C7_PerThreadDense ==
  \A t \in Threads : \A k \in 1..Len(events[t]) : events[t][k].seq_id = k

\* C7 (amended): seq-ids come from one counter for the whole events table:
\* the k-th event appended to the store gets id k, whatever its thread.  So
\* the ids are dense and start at 1 over the table; within one thread they
\* are positive and strictly increasing, with gaps where other threads'
\* events were appended in between.
C7_TableWideCounter ==
  /\ lastSeq = hist.appended
  /\ \A t \in Threads : StrictlyIncreasing(LogIds(t))
  /\ UNION {Range(LogIds(t)) : t \in Threads} = 1..lastSeq
  /\ \A t, u \in Threads : t # u => Range(LogIds(t)) \cap Range(LogIds(u)) = {}

\* an event of the sub-thread was appended after an event of the parent
C7_Witness ==
  /\ events["p"] # <<>>
  /\ events["c"] # <<>>
  /\ events["c"][1].seq_id > 1

\* the notification workers of thread t that exist and were not cancelled
Workers(t) ==
  {i \in WorkerIds : tasks[i].thread = t /\ tasks[i].pc # "done" /\ ~tasks[i].cancel}

\* C8: the notifications of a parent are taken in enqueue order; at most one
\* worker exists per parent; a worker inside a turn is processing the
\* notification started last, so a notification starts only after the turn
\* of the one before it has ended.
C8_InOrderOneAtATime ==
  \A t \in Threads :
    /\ StrictlyIncreasing(hist.started[t])
    /\ Cardinality(Workers(t)) <= 1
    /\ \A i \in Workers(t) :
         tasks[i].pc \in InTurn => (hist.started[t] # <<>> /\ tasks[i].cur = Last(hist.started[t]))

\* two notifications were queued together and both have been started
C8_Witness ==
  /\ Len(hist.started["p"]) >= 2
  /\ \E i \in Workers("p") : tasks[i].pc \in InTurn

\* C9: no notification is dropped: every notification enqueued for the parent
\* has been started by a worker turn or is still held in the parent's queue.
C9_NoNotificationDropped ==
  \A n \in 1..hist.enqueued :
    \/ n \in Range(hist.started["p"])
    \/ /\ notification_queues["p"] # None
       /\ n \in Range(tasks[notification_queues["p"]].queue)

\* the tasks inside "async with _agent_semaphore"
InDriver == {i \in TaskIds : tasks[i].pc \in {"stream", "retry_sleep"}}

\* C10: every task inside a driver invocation (first attempt or retry) holds
\* a permit, the permits held and the free permits add up to
\* MAX_CONCURRENT_AGENTS, so at most MAX_CONCURRENT_AGENTS turns are inside.
C10_PermitHeld ==
  /\ \A i \in InDriver : tasks[i].permit
  /\ Cardinality(InDriver) <= MAX_CONCURRENT_AGENTS
  /\ agent_semaphore >= 0
  /\ Cardinality({i \in TaskIds : tasks[i].permit}) + agent_semaphore = MAX_CONCURRENT_AGENTS

\* all permits are taken, one of them by a retry, and a turn waits for one
C10_Witness ==
  /\ agent_semaphore = 0
  /\ \E i \in TaskIds : tasks[i].pc = "acquire"
  /\ \E i \in InDriver : tasks[i].attempt > 0
  /\ \E i \in InDriver : IsWorker(St, i)

\* the tool_use blocks of the in-flight assistant message, in order
ToolBlocks == SelectSeq(processor.collected_blocks, LAMBDA b : b.type = "tool_use")
Incomplete == {k \in 1..Len(ToolBlocks) : ~ToolBlocks[k].isComplete}

\* the data of the events of one type published on the processor's thread
Published(type) ==
  LET es == SelectSeq(events["p"], LAMBDA e : e.type = type)
  IN [k \in 1..Len(es) |-> es[k].data]

\* C11: during a turn the number of tool-use blocks with isComplete = false
\* equals the length of the pending-tool FIFO.
C11_PendingMatchesBlocks ==
  processor.pc = "stream" => Cardinality(Incomplete) = Len(processor.pending_tool_ids)

\* the first attempt has handled only tool_use messages with an id and
\* tool_result messages without one
FifoInput ==
  /\ processor.attempt = 0
  /\ processor.pc = "stream"
  /\ \A k \in 1..Len(processor.inbound) :
       LET m == processor.inbound[k]
       IN \/ m.type = "tool_use" /\ m.id # NoId
          \/ m.type = "tool_result" /\ m.id = NoId

\* C12: on such input the id-less results close the pending tools oldest
\* first: the ids of the published tool_result events are the ids of the
\* first tool_use messages in order, exactly those first blocks are
\* complete, and the FIFO holds the ids of the others.
C12_FifoFallback ==
  FifoInput =>
    LET closed == SelectSeq(Published("tool_result"), LAMBDA id : id # NoId)
        n == Len(closed)
    IN /\ n <= Len(ToolBlocks)
       /\ \A k \in 1..n : closed[k] = ToolBlocks[k].id
       /\ \A k \in 1..Len(ToolBlocks) : ToolBlocks[k].isComplete <=> k <= n
       /\ processor.pending_tool_ids = [k \in 1..(Len(ToolBlocks) - n) |-> ToolBlocks[n + k].id]

\* C13: once the turn's current processor has handled a message, the stored
\* assistant message has the processor's block list, and when the turn has
\* published text its content is the concatenation of all text_delta
\* contents of the turn.
C13_StoredMatchesStream ==
  (processor.pc = "stream" /\ processor.inbound # <<>>) =>
     LET row == processor.rows[processor.message_id]
     IN /\ row.blocks = processor.collected_blocks
        /\ Published("text_delta") # <<>> => row.content = Join(Published("text_delta"))

\* C14: when the turn has completed after a retry, the assistant message
\* carried by `complete` holds the text of the interrupted attempt followed
\* by the text of the retry.
C14_ResumeKeepsPartial ==
  (processor.pc = "done" /\ processor.attempt > 0 /\ Published("text_delta") # <<>>) =>
     processor.complete.content = Join(Published("text_delta"))


\* C15: once the task of a failed turn (retries exhausted, timeout,
\* cancellation by stop, archive or shutdown) has finished, the stored status
\* of its thread is not left at "pending" or "running": a thread with one of
\* those statuses has a task that is still inside a turn.
Unfinished(t) == {i \in TaskIds : tasks[i].thread = t /\ tasks[i].pc \in InTurn}

C15_NoStaleStatus ==
  \A t \in Threads : threads[t].status \in {"pending", "running"} => Unfinished(t) # {}


\* C16: a thread has at most one outstanding prompt: a second wait_for_answer
\* on a thread that has a slot does not replace it, so at most one call waits
\* per thread, the slot of a waiting call whose event is not set is its own,
\* and every slot belongs to a call that is still waiting (removed on return).
Waiting(t) == {w \in WaiterIds : registry.waiters[w].pc = "waiting" /\ registry.waiters[w].thread = t}

C16_OnePromptPerThread ==
  \A t \in Threads :
    LET slot == registry._pending_questions[t]
    IN /\ Cardinality(Waiting(t)) <= 1
       /\ \A w \in Waiting(t) : ~registry.waiters[w].set => slot.event = w
       /\ slot # NoSlot => slot.event \in Waiting(t)


\* C17: after clear_thread_messages(t) the next turn on t starts a fresh
\* session: the session token that turn reads from the store is null, also
\* when a turn that was in progress at the clear persisted its token later.
C17_FreshAfterClear == \A t \in Threads : hist.first_read[t] \in {Unread, None}


\* C18: an archived thread is immutable except for un-archival: a step taken
\* while the thread is archived, and that leaves it archived, changes neither
\* its status or session token nor its messages nor its event log.
C18_ArchivedImmutable ==
  [][\A t \in Threads :
       (threads[t].archived_at /\ threads'[t].archived_at) =>
          /\ threads'[t] = threads[t]
          /\ messages'[t] = messages[t]
          /\ events'[t] = events[t]]_vars


\* C19: archive followed by unarchive leaves every attribute of the thread
\* other than archived_at as it was before the archive: the row the unarchive
\* step leaves behind equals the row the archive request found (status,
\* session token, updated-at), also when a turn was running at the archive.
C19_ArchiveRoundTrip ==
  [][\A t \in Threads :
       (threads[t].archived_at /\ ~threads'[t].archived_at) =>
          threads'[t] = hist.before_archive[t]]_vars


\* C20: SpawnThread is offered only at depth < max-depth and (depth 0 or
\* allow-nested).  So in a tree built through SpawnThread every thread that
\* has a child satisfies that condition (a thread at depth D with max_depth D
\* has none), no thread is deeper than its root's max-depth, and none is
\* deeper than 1 when the root's allow-nested is false.
RECURSIVE RootOf(_, _)
RootOf(rows, id) == IF rows[id].parent_id = None THEN id ELSE RootOf(rows, rows[id].parent_id)

RowIds == 1..Len(thread_rows)
Depth(id) == get_thread_depth(thread_rows, id)

C20_SpawnDepth ==
  \A id \in RowIds :
    LET root == thread_rows[RootOf(thread_rows, id)]
        parent_id == thread_rows[id].parent_id
    IN /\ Depth(id) <= root.max_thread_depth
       /\ ~root.allow_nested_subthreads => Depth(id) <= 1
       /\ parent_id # None =>
            /\ Depth(parent_id) < thread_rows[parent_id].max_thread_depth
            /\ Depth(parent_id) = 0 \/ thread_rows[parent_id].allow_nested_subthreads

\* a nested tree grown to its limit: a thread at depth D >= 2 with max_depth D
\* (it is not offered SpawnThread), and a main thread without allow-nested
\* whose child is not offered it either
C20_Witness ==
  /\ \E id \in RowIds : /\ Depth(id) >= 2
                         /\ Depth(id) = thread_rows[id].max_thread_depth
                         /\ ~can_spawn(thread_rows, id)
  /\ \E id \in RowIds : /\ Depth(id) = 1
                         /\ ~thread_rows[id].allow_nested_subthreads
                         /\ thread_rows[id].max_thread_depth >= 2
                         /\ ~can_spawn(thread_rows, id)


\* C21: for every source thread and every rolling window of message_window
\* seconds, at most message_rate_limit calls of SendToThread are accepted; a
\* call is refused exactly when message_rate_limit accepted calls lie within
\* the message_window seconds before it, a refused call hands nothing on, and
\* an accepted one does.
InWindow(t, k) ==
  {j \in 1..Len(hist.accepted[t]) :
     /\ hist.accepted[t][j] <= hist.accepted[t][k]
     /\ hist.accepted[t][k] - hist.accepted[t][j] < message_window}

HandlesToolResult ==
  /\ Len(processor'.inbound) = Len(processor.inbound) + 1
  /\ SubSeq(processor'.inbound, 1, Len(processor.inbound)) = processor.inbound
  /\ Last(processor'.inbound).type = "tool_result"

WithoutOne(q, x) ==
  {SubSeq(q, 1, k - 1) \o SubSeq(q, k + 1, Len(q)) : k \in {j \in 1..Len(q) : q[j] = x}}

C22_UnknownIdClosesHead ==
  [][HandlesToolResult =>
       LET given == Last(processor'.inbound).id
           pending == processor.pending_tool_ids
       IN /\ (given # NoId /\ given \notin Range(pending) /\ pending # <<>>)
               => processor'.pending_tool_ids = Tail(pending)
          /\ given \in Range(pending)
               => processor'.pending_tool_ids \in WithoutOne(pending, given)]_vars


\* C23: when the stream ends normally, every id still pending is completed in
\* FIFO order, each with one `tool_result` carrying that id, and these events
\* come before the turn's `complete`; afterwards the queue is empty and every
\* tool-use block that has an id is complete.  An attempt that fails does no
\* such finalisation: it publishes nothing and leaves queue and blocks alone.
NewEvents(t) == SubSeq(events'[t], Len(events[t]) + 1, Len(events'[t]))

C23_FinalizeOnStreamEnd ==
  [][/\ (processor.pc = "stream" /\ processor'.pc = "done") =>
          LET pend == processor.pending_tool_ids
              new == NewEvents("p")
          IN /\ Len(new) = Len(pend) + 1
             /\ \A k \in 1..Len(pend) : new[k].type = "tool_result" /\ new[k].data = pend[k]
             /\ Last(new).type = "complete"
             /\ processor'.pending_tool_ids = <<>>
             /\ \A k \in 1..Len(processor'.complete.blocks) :
                   LET b == processor'.complete.blocks[k]
                   IN (b.type = "tool_use" /\ b.id # NoId) => b.isComplete
     /\ (processor.pc = "stream" /\ processor'.pc \in {"retry_sleep", "failed"}) =>
          /\ \A k \in 1..Len(NewEvents("p")) : NewEvents("p")[k].type # "tool_result"
          /\ processor'.pending_tool_ids = processor.pending_tool_ids
          /\ processor'.collected_blocks = processor.collected_blocks]_vars


\* C24: a driver crash in a turn is retried in the same turn: the driver is
\* invoked at most MAX_AGENT_RETRIES + 1 times; a crash with attempts left
\* leads to the retry delay, and the retry persists a system message before
\* it starts; a crash with no attempt left ends the thread in needs_attention
\* with an `error` event and, for a sub-thread, the escalation to the parent.
HasEvent(q, type, data) == \E k \in 1..Len(q) : q[k].type = type /\ q[k].data = data
HasType(q, type) == \E k \in 1..Len(q) : q[k].type = type
NewMessages(t) == SubSeq(messages'[t], Len(messages[t]) + 1, Len(messages'[t]))

Escalated(t) ==
  parentId[t] # NoThread =>
    /\ HasEvent(NewEvents(parentId[t]), "subthread_status", "needs_attention")
    /\ HasType(NewEvents(parentId[t]), "message")
    /\ NewMessages(parentId[t]) # <<>>

Crashed(i) ==
  /\ hist'.faults = hist.faults + 1
  /\ hist'.last_fault.task = i
  /\ hist'.last_fault.kind \in {"crash", "exception"}

C24_CrashIsRetried ==
  [][\A i \in TaskIds :
       /\ tasks[i].attempt <= MAX_AGENT_RETRIES
       /\ Crashed(i) =>
            IF tasks[i].attempt < MAX_AGENT_RETRIES
            THEN /\ tasks'[i].pc = "retry_sleep"
                 /\ tasks'[i].attempt = tasks[i].attempt + 1
            ELSE /\ threads'[tasks[i].thread].status = "needs_attention"
                 /\ HasType(NewEvents(tasks[i].thread), "error")
                 /\ Escalated(tasks[i].thread)
       /\ (tasks[i].pc = "retry_sleep" /\ tasks'[i].pc = "stream") =>
            /\ NewMessages(tasks[i].thread) = <<"system", "assistant">>
            /\ HasEvent(NewEvents(tasks[i].thread), "message", "retry")]_vars


\* C25: when the cancellation of a registered turn is delivered - while it
\* waits for a permit, streams, or sleeps before a retry - the thread's
\* status becomes active, exactly one event, `stopped`, is published on the
\* thread, a held permit is released, the task ends without another attempt,
\* and nothing reaches the parent: no event, no message, no notification, and
\* no other task is created or changed.
CancelDelivered(i) ==
  /\ tasks[i].kind \in TurnKinds
  /\ tasks[i].cancel
  /\ tasks[i].pc \in InTurn
  /\ tasks'[i].pc # tasks[i].pc

C25_CancelledStopsQuietly ==
  [][\A i \in TaskIds :
       CancelDelivered(i) =>
         LET t == tasks[i].thread
         IN /\ threads'[t].status = "active"
            /\ Len(NewEvents(t)) = 1
            /\ NewEvents(t)[1].type = "stopped"
            /\ ~tasks'[i].permit
            /\ agent_semaphore' = agent_semaphore + (IF tasks[i].permit THEN 1 ELSE 0)
            /\ tasks'[i].pc = "done"
            /\ tasks'[i].attempt = tasks[i].attempt
            /\ \A j \in TaskIds \ {i} : tasks'[j] = tasks[j]
            /\ hist'.enqueued = hist.enqueued
            /\ parentId[t] # NoThread =>
                 /\ events'[parentId[t]] = events[parentId[t]]
                 /\ messages'[parentId[t]] = messages[parentId[t]]
                 /\ threads'[parentId[t]] = threads[parentId[t]]]_vars

\* a sub-thread's turn that was cancelled after a retry had been scheduled,
\* and one that was cancelled while it waited for a permit
C25_Witness ==
  /\ \E i \in TurnIds : /\ tasks[i].thread = "c"
                         /\ tasks[i].stopped = 1
                         /\ tasks[i].attempt = 1
                         /\ threads["c"].status = "active"
  /\ \E i \in TurnIds : /\ tasks[i].stopped = 1
                         /\ tasks[i].attempt = 0
                         /\ messages[tasks[i].thread] = <<"user">>


\* C26: a turn that hits the hard timeout is not retried: the thread's status
\* becomes needs_attention, an `error` event with the timeout message and no
\* `stopped` event is published on the thread, and a thread that has a parent
\* escalates to it (subthread_status needs_attention and a notification
\* message) - whichever entry point runs the turn, the notification worker of
\* a thread that has a parent included.
TimedOut(i) ==
  /\ hist'.faults = hist.faults + 1
  /\ hist'.last_fault = [task |-> i, kind |-> "timeout"]

C26_TimeoutEscalates ==
  [][\A i \in TaskIds :
       TimedOut(i) =>
         LET t == tasks[i].thread
         IN /\ tasks'[i].pc \notin InTurn
            /\ tasks'[i].attempt = tasks[i].attempt
            /\ threads'[t].status = "needs_attention"
            /\ HasEvent(NewEvents(t), "error", "timeout")
            /\ ~HasType(NewEvents(t), "stopped")
            /\ Escalated(t)]_vars


\* C27: a round of the watchdog changes only threads that are not archived,
\* are running, and whose last update is more than
\* WATCHDOG_STUCK_THRESHOLD_SECONDS old; a pending thread, or one in any other
\* status, is never touched.  Each such thread becomes needs_attention, its
\* stream gets `error` and then `status_change` needs_attention, and its
\* parent's stream gets subthread_status needs_attention and a notification
\* message.
WatchdogRound == hist'.watchdogs = hist.watchdogs + 1

Stuck(t) ==
  /\ ~threads[t].archived_at
  /\ threads[t].status = "running"
  /\ (hist.now + WATCHDOG_INTERVAL_SECONDS) - threads[t].updated_at
       > WATCHDOG_STUCK_THRESHOLD_SECONDS

Children(t) == {u \in Threads : parentId[u] = t}

C27_WatchdogRecovers ==
  [][WatchdogRound =>
       \A t \in Threads :
         /\ Stuck(t) =>
              /\ threads'[t].status = "needs_attention"
              /\ \E j, k \in 1..Len(NewEvents(t)) :
                    /\ j < k
                    /\ NewEvents(t)[j].type = "error"
                    /\ NewEvents(t)[k].type = "status_change"
                    /\ NewEvents(t)[k].data = "needs_attention"
              /\ Escalated(t)
         /\ ~Stuck(t) =>
              /\ threads'[t] = threads[t]
              /\ ~HasType(NewEvents(t), "error")
              /\ ~HasType(NewEvents(t), "status_change")
         /\ (\A u \in Children(t) : ~Stuck(u)) =>
              /\ ~HasType(NewEvents(t), "subthread_status")
              /\ messages'[t] = messages[t]]_vars


\* C28: an answer delivered while a wait_for_answer call is pending is what
\* that call returns; an answer delivered when the thread has no slot is
\* dropped, so a call never returns an answer that was not delivered to it;
\* clear_pending_question wakes a pending call, which returns no answer.
\* hist.given[w] is the answer last delivered to the event of call w.
Returns(w) == registry.waiters[w].pc = "waiting" /\ registry'.waiters[w].pc = "returned"

C28_AnswerReachesItsCall ==
  [][/\ \A w \in WaiterIds : Returns(w) => registry'.waiters[w].result = hist.given[w]
     /\ \A t \in Threads :
          (hist'.archives = hist.archives + 1 /\ threads'[t].archived_at
             /\ registry._pending_questions[t] # NoSlot) =>
            /\ registry'.waiters[registry._pending_questions[t].event].set
            /\ registry'._pending_questions[t] = NoSlot]_vars


\* C29: when an archive of a thread completes, through the HTTP endpoint or
\* through the ArchiveThread tool, the thread has no pending question, no
\* subscriber (each one it had got `shutdown`, put before archived_at was set
\* and so without a `thread_archived` after it), no notification queue or
\* worker, no registered task and no stored event; a thread that is archived
\* already is not archived again.
Archived(t) == ~threads[t].archived_at /\ threads'[t].archived_at

NewQueued(x) == SubSeq(subs'[x].queue, Len(subs[x].queue) + 1, Len(subs'[x].queue))

C29_ArchiveCleansUp ==
  [][/\ \A t \in Threads :
          Archived(t) =>
            /\ registry'._pending_questions[t] = NoSlot
            /\ thread_subscribers'[t] = <<>>
            /\ \A x \in Range(thread_subscribers[t]) :
                  /\ Len(NewQueued(x)) = 1
                  /\ NewQueued(x)[1].type = "shutdown"
            /\ notification_queues'[t] = None
            /\ notification_workers'[t] = None
            /\ active_tasks'[t] = None
            /\ events'[t] = <<>>
     /\ hist'.archives # hist.archives => \E t \in Threads : Archived(t)]_vars


\* C30: every event sent on an SSE connection, other than `connected`,
\* `shutdown` and the heartbeat, is a row of the event log and is sent with
\* the row's seq_id, thread_archived and thread_unarchived included: an event
\* is in the thread's log when it is put into a subscriber's queue, the
\* generator sends the head of the queue with the id it carries, and a replay
\* sends rows of the log.
InLog(q, e) == \E k \in 1..Len(q) : q[k] = e

C30_SentIsPersisted ==
  [][\A x \in SubIds :
       /\ \A k \in 1..Len(NewQueued(x)) :
            \/ NewQueued(x)[k].type = "shutdown"
            \/ InLog(events'[subs'[x].thread], NewQueued(x)[k])
       /\ (subs[x].pc = "live" /\ subs'[x].delivered # subs[x].delivered) =>
            /\ subs'[x].delivered = Append(subs[x].delivered, Sent(Head(subs[x].queue)))
            /\ Sent(Head(subs[x].queue)).id >= 1
       /\ (subs[x].pc = "registered" /\ subs'[x].pc = "live") =>
            \A k \in 1..Len(subs'[x].delivered) :
               \E j \in 1..Len(events[subs[x].thread]) :
                  Sent(events[subs[x].thread][j]) = subs'[x].delivered[k]]_vars


\* C31: a SendToThread call that is refused - by the rate limit, for a
\* missing thread_id or message, or because the target does not exist, is no
\* child of the source or is archived - changes nothing: the source's calls
\* that count against its quota are those that counted before, no message is
\* stored, no task is created and no thread row changes.
ToolAnswered(a) == hist'.calls = hist.calls + 1 /\ hist'.last_tool.answer = a

Quota(stamps, t) == recent_timestamps(stamps[t], hist.time)

C31_RefusedCallChangesNothing ==
  [][\A a \in {"rate_limited", "required", "not_found"} :
       ToolAnswered(a) =>
         /\ \A t \in Threads :
               Quota(registry'._message_timestamps, t) = Quota(registry._message_timestamps, t)
         /\ messages' = messages
         /\ tasks' = tasks
         /\ threads' = threads
         /\ events' = events]_vars


\* C32: when a turn of a sub-thread succeeds and its classified status is
\* active, the sub-thread's stored status becomes done, the parent's stream
\* gets subthread_status done, the "completed" notification is stored as a
\* user message of the parent and published as `message`, and a turn of the
\* parent is enqueued exactly when the parent's auto_react is true.
SucceedsActive(i) ==
  /\ tasks[i].pc = "stream"
  /\ tasks'[i].pc \in {"done", "queue_get"}
  /\ HasEvent(NewEvents(tasks[i].thread), "complete", "active")

C32_ActiveMeansDone ==
  [][\A i \in TaskIds :
       (SucceedsActive(i) /\ parentId[tasks[i].thread] # NoThread) =>
         LET t == tasks[i].thread
             p == parentId[t]
         IN /\ threads'[t].status = "done"
            /\ HasEvent(NewEvents(p), "subthread_status", "done")
            /\ NewMessages(p) = <<"user">>
            /\ HasEvent(NewEvents(p), "message", "completed")
            /\ (hist'.enqueued = hist.enqueued + 1) <=> threads[p].auto_react]_vars


\* C33: determine_status for every combination of tool calls and text: a
\* SignalStatus call with status done gives done and one with status blocked
\* gives needs_attention, before any text marker; without such a call text
\* that contains [BLOCKED] gives needs_attention, else text that contains
\* [DONE] gives done, else active.  The result is one of the three.  Checked
\* on the status a finishing turn hands to its `complete` event.
SignalledStatuses(calls) ==
  {IF calls[k] = "done" THEN "done" ELSE "needs_attention" :
     k \in {j \in 1..Len(calls) : calls[j] \in {"done", "blocked"}}}

Classified(text, calls) ==
  IF SignalledStatuses(calls) # {} THEN SignalledStatuses(calls)
  ELSE IF "[BLOCKED]" \in text THEN {"needs_attention"}
  ELSE IF "[DONE]" \in text THEN {"done"}
  ELSE {"active"}

Finishes(i) ==
  /\ tasks[i].kind \in TurnKinds
  /\ tasks[i].pc = "stream"
  /\ tasks'[i].pc = "done"
  /\ HasType(NewEvents(tasks[i].thread), "complete")

C33_Classification ==
  [][\A i \in TaskIds :
       Finishes(i) =>
         \E st \in Classified(tasks[i].text, tasks[i].calls) \cap {"active", "needs_attention", "done"} :
            HasEvent(NewEvents(tasks[i].thread), "complete", st)]_vars

\* a turn that called SignalStatus with done, wrote [BLOCKED], and completed
\* as done
C33_Witness ==
  /\ \E i \in TurnIds : /\ tasks[i].pc = "done"
                         /\ "done" \in Range(tasks[i].calls)
                         /\ "[BLOCKED]" \in tasks[i].text
                         /\ HasEvent(events[tasks[i].thread], "complete", "done")
                         /\ ~HasEvent(events[tasks[i].thread], "complete", "needs_attention")


\* C34: get_messages_paginated(thread, limit, offset) returns, oldest first,
\* the messages left after the `offset` most recent ones are skipped, cut to
\* the `limit` (clamped to 1..MAX_PAGE_LIMIT) most recent of those: with
\* total messages, those at positions total - offset - limit + 1 (at least
\* 1) to total - offset.  So an offset of total or more returns nothing,
\* pages at offsets 0, limit, 2 * limit, ... share no message, and hasMore
\* says that older messages remain.
C34_Pagination ==
  hist.page # NoPage =>
    LET pg == hist.page
        last == pg.total - pg.offset
        first == Max(1, last - pg.limit + 1)
    IN /\ pg.limit \in 1..MAX_PAGE_LIMIT
       /\ pg.offset >= 0
       /\ pg.messages = [k \in 1..Max(0, last - first + 1) |-> first + k - 1]
       /\ pg.hasMore <=> (last >= 1 /\ first > 1)


\* C35: while a newer turn j is registered for a thread and in progress, with
\* the stored status pending or running, the cancellation handler of an
\* older turn i of that thread leaves the stored status as it is; whether
\* the newer turn has already been admitted (and has published
\* status_change{running}) makes no difference.
C35_SupersededKeepsStatus ==
  [][\A i, j \in TurnIds :
       (/\ i # j
        /\ tasks[i].thread = tasks[j].thread
        /\ tasks[i].cancel /\ tasks[i].pc \in InTurn
        /\ tasks'[i].pc = "done" /\ tasks'[i].stopped = tasks[i].stopped + 1
        /\ active_tasks[tasks[j].thread] = j
        /\ tasks[j].pc \in InTurn /\ tasks'[j].pc \in InTurn
        /\ threads[tasks[j].thread].status \in {"pending", "running"})
       => threads'[tasks[j].thread].status = threads[tasks[j].thread].status]_vars


\* C36: every `complete` event carries the status the thread has in the
\* store when the event is published, whichever of send_message,
\* run_thread_for_agent and the notification worker ran the turn and
\* whatever the thread (a sub-thread classified active included).
C36_CompleteCarriesStoredStatus ==
  [][\A t \in Threads : \A k \in 1..Len(NewEvents(t)) :
       NewEvents(t)[k].type = "complete" =>
         NewEvents(t)[k].data = threads'[t].status]_vars


\* the status of the last subthread_status event in the log q, if any
LastSubthreadStatus(q) ==
  LET ks == {k \in 1..Len(q) : q[k].type = "subthread_status"}
  IN IF ks = {} THEN "none"
     ELSE q[CHOOSE k \in ks : \A j \in ks : j <= k].data

\* C37: when a turn of a sub-thread ends, the last subthread_status event
\* published to the parent carries the child's stored status, and the
\* notification persisted in the parent says "completed" exactly when that
\* status is done; several SignalStatus calls with different values in the
\* turn make no difference.
C37_LastStatusAgrees ==
  [][\A i \in TurnIds :
       (Finishes(i) /\ parentId[tasks[i].thread] # NoThread) =>
         LET t == tasks[i].thread
             p == parentId[t]
         IN /\ LastSubthreadStatus(events'[p]) = threads'[t].status
            /\ \E k \in 1..Len(NewEvents(p)) :
                 /\ NewEvents(p)[k].type = "message"
                 /\ NewEvents(p)[k].data = "completed" <=> threads'[t].status = "done"]_vars


\* a worker task that has not terminated and is not being cancelled
LiveWorker(w) ==
  /\ tasks[w].kind = "notification_worker"
  /\ tasks[w].pc \notin {"none", "done"}
  /\ ~tasks[w].cancel

\* C38: a notification queue that exists for a parent is drained by exactly
\* one worker that has not terminated, so no notification is put on a queue
\* whose worker is gone (a worker that died in its own error handler
\* included), and no sequence of archive, unarchive and new notifications
\* leaves two workers for one parent.
C38_OneWorkerPerQueue ==
  \A p \in Threads :
    /\ notification_queues[p] # None => LiveWorker(notification_queues[p])
    /\ Cardinality({w \in WorkerIds : LiveWorker(w) /\ tasks[w].thread = p})
         = IF notification_queues[p] # None THEN 1 ELSE 0


\* C39: a round of the watchdog publishes nothing for a thread it has
\* recovered before, neither error nor status_change on the thread nor
\* subthread_status or a notification on its parent, unless a new turn has
\* set the thread to running since; and no round of the watchdog cancels a
\* task or changes the task registry.
C39_RecoveredOnce ==
  [][WatchdogRound =>
       /\ \A t \in Threads :
            hist.recovered[t] =>
              /\ ~HasType(NewEvents(t), "error")
              /\ ~HasType(NewEvents(t), "status_change")
              /\ parentId[t] # NoThread =>
                   /\ ~HasType(NewEvents(parentId[t]), "subthread_status")
                   /\ NewMessages(parentId[t]) = <<>>
       /\ active_tasks' = active_tasks
       /\ \A i \in TaskIds : tasks'[i].cancel = tasks[i].cancel]_vars


\* the tasks inside "async with _agent_semaphore"
Holders == {i \in TaskIds : tasks[i].permit}

\* C40: permits are neither lost nor made: free permits plus turns holding
\* one stay what the semaphore was built with, and a task that has ended
\* (success, error after the retries, timeout, cancel) holds none.  And
\* admission does not deadlock: with a single permit as with more, and with
\* a parent turn holding a permit while its child's turn waits, every turn
\* waiting for a permit is admitted, unless it is cancelled while waiting,
\* provided no admitted stream goes on for ever.
C40_AdmissionLive ==
  /\ [][agent_semaphore' + Cardinality(Holders') = agent_semaphore + Cardinality(Holders)]_vars
  /\ [](\A i \in TaskIds : tasks[i].pc = "done" => ~tasks[i].permit)
  /\ (\A j \in TurnIds : []<>(~Streaming(j)))
       => \A i \in TurnIds :
            (tasks[i].pc = "acquire") ~> (tasks[i].permit \/ tasks[i].cancel)

\* with one permit, held by the turn on the root, the turn that the root's
\* agent sent to the sub-thread waited and has been admitted after the
\* root's turn ended
C40_Witness ==
  \E i, j \in TurnIds :
    /\ tasks[i].thread = "p" /\ tasks[i].pc = "done" /\ tasks[i].stopped = 0
    /\ tasks[j].kind = "run_thread_for_agent" /\ tasks[j].thread = "c"
    /\ j \in hist.waited
    /\ tasks[j].permit /\ tasks[j].pc = "stream"
    /\ agent_semaphore = 0
    /\ Cardinality(Holders) = 1

====
